---- MODULE Spec2Model ----
(***************************************************************************)
(* A model of the Redis-compatible server of src/app/main.py: the RESP     *)
(* codec (parse_resp, parse_multiple_resp_commands, encode_resp_array),    *)
(* the keyspace handlers, the primary's fan-out to replicas and the        *)
(* replica's connection to its primary.                                    *)
(*                                                                         *)
(* Bytes are integers 0..255; a Python bytes object is a sequence of       *)
(* bytes; a Python str is a sequence of code points.                       *)
(***************************************************************************)
EXTENDS Integers, Sequences, FiniteSets, TLC

(***************************************************************************)
(* Byte values the code names in its literals.                             *)
(***************************************************************************)
STAR == 42
DOLLAR == 36
CR == 13
LF == 10
PLUS == 43
MINUS == 45
ZERO == 48

CRLF == <<CR, LF>>

(***************************************************************************)
(* Sequence helpers (Python slicing and concatenation).                    *)
(***************************************************************************)
\* data[i:]  (0-based i), as SubSeq
Drop(s, n) == SubSeq(s, n + 1, Len(s))

\* data[:n]
Take(s, n) == SubSeq(s, 1, n)

\* bytes.startswith(<one byte>)
StartsWith(s, b) == Len(s) >= 1 /\ s[1] = b

RECURSIVE Concat(_)
\* b"".join(list) of byte strings
Concat(ss) == IF ss = <<>> THEN <<>> ELSE Head(ss) \o Concat(Tail(ss))

(***************************************************************************)
(* str <-> bytes: str.encode() and bytes.decode() are UTF-8.  Code points  *)
(* below 128 are one byte, code points 128..2047 are two bytes.            *)
(***************************************************************************)
Utf8Char(cp) == IF cp < 128 THEN <<cp>> ELSE <<192 + (cp \div 64), 128 + (cp % 64)>>

RECURSIVE StrEncode(_)
StrEncode(s) == IF s = <<>> THEN <<>> ELSE Utf8Char(Head(s)) \o StrEncode(Tail(s))

\* bytes.decode(): the str, or "error" (UnicodeDecodeError)
RECURSIVE BytesDecode(_)
BytesDecode(bs) ==
    IF bs = <<>> THEN [ok |-> TRUE, str |-> <<>>]
    ELSE IF bs[1] < 128
         THEN LET r == BytesDecode(Tail(bs))
              IN  [ok |-> r.ok, str |-> <<bs[1]>> \o r.str]
         ELSE IF bs[1] >= 194 /\ bs[1] <= 223 /\ Len(bs) >= 2 /\ bs[2] >= 128 /\ bs[2] <= 191
              THEN LET r == BytesDecode(Drop(bs, 2))
                   IN  [ok |-> r.ok, str |-> <<(bs[1] - 192) * 64 + (bs[2] - 128)>> \o r.str]
              ELSE [ok |-> FALSE, str |-> <<>>]

\* a comparison that forgets .upper(): what C14 excludes for "set"
NoUpper(s) == s

\* str.upper() on the ASCII letters
UpperChar(c) == IF c >= 97 /\ c <= 122 THEN c - 32 ELSE c

Upper(s) == [i \in 1..Len(s) |-> UpperChar(s[i])]

\* str.lower() on the ASCII letters
LowerChar(c) == IF c >= 65 /\ c <= 90 THEN c + 32 ELSE c

Lower(s) == [i \in 1..Len(s) |-> LowerChar(s[i])]

(***************************************************************************)
(* int(<bytes or str>) and str(<int>): decimal with an optional sign.      *)
(***************************************************************************)
IsDigit(b) == b >= ZERO /\ b <= ZERO + 9

AllDigits(s) == Len(s) >= 1 /\ \A i \in 1..Len(s) : IsDigit(s[i])

\* the bytes int() skips at both ends: TAB, LF, VT, FF, CR, space
IsSpace(b) == b \in {9, 10, 11, 12, 13, 32}

RECURSIVE LStrip(_)
LStrip(s) == IF s # <<>> /\ IsSpace(s[1]) THEN LStrip(Tail(s)) ELSE s

RECURSIVE RStrip(_)
RStrip(s) == IF s # <<>> /\ IsSpace(s[Len(s)]) THEN RStrip(Take(s, Len(s) - 1)) ELSE s

Strip(s) == RStrip(LStrip(s))

\* the digits of a stripped number, its sign removed
Unsigned(t) == IF Len(t) >= 1 /\ (t[1] = PLUS \/ t[1] = MINUS) THEN Tail(t) ELSE t

\* whether int(s) returns (otherwise it raises ValueError)
IsInt(s) == AllDigits(Unsigned(Strip(s)))

RECURSIVE DigitsValue(_)
DigitsValue(s) ==
    IF s = <<>> THEN 0 ELSE DigitsValue(Take(s, Len(s) - 1)) * 10 + (s[Len(s)] - ZERO)

\* int(s), for s with IsInt(s)
ToInt(s) ==
    LET t == Strip(s)
    IN  IF t[1] = MINUS THEN 0 - DigitsValue(Tail(t)) ELSE DigitsValue(Unsigned(t))

RECURSIVE ToDec(_)
\* str(n) for n >= 0, as ASCII digits
ToDec(n) == IF n < 10 THEN <<ZERO + n>> ELSE ToDec(n \div 10) \o <<ZERO + (n % 10)>>

(***************************************************************************)
(* bytes.split(b"\r\n") and b"\r\n".join(lines)                            *)
(***************************************************************************)
\* index of the first CR LF in data, 0 when there is none (bytes.find + 1)
FindCRLF(data) ==
    LET hits == {i \in 1..(Len(data) - 1) : data[i] = CR /\ data[i + 1] = LF}
    IN  IF hits = {} THEN 0 ELSE CHOOSE i \in hits : \A j \in hits : i <= j

RECURSIVE SplitCRLF(_)
SplitCRLF(data) ==
    LET p == FindCRLF(data)
    IN  IF p = 0 THEN <<data>>
        ELSE <<Take(data, p - 1)>> \o SplitCRLF(Drop(data, p + 1))

RECURSIVE JoinCRLF(_)
JoinCRLF(lines) ==
    IF lines = <<>> THEN <<>>
    ELSE IF Len(lines) = 1 THEN lines[1]
    ELSE lines[1] \o CRLF \o JoinCRLF(Tail(lines))

(***************************************************************************)
(* The RESP encoders.                                                      *)
(***************************************************************************)
\* f"${len(value)}\r\n{value}\r\n".encode(): len counts code points
encode_bulk_string(value) ==
    <<DOLLAR>> \o ToDec(Len(value)) \o CRLF \o StrEncode(value) \o CRLF

encode_null_bulk_string == <<DOLLAR, MINUS, ZERO + 1, CR, LF>>

RECURSIVE EncodeElements(_)
EncodeElements(elements) ==
    IF elements = <<>> THEN <<>>
    ELSE encode_bulk_string(Head(elements)) \o EncodeElements(Tail(elements))

encode_resp_array(elements) ==
    <<STAR>> \o ToDec(Len(elements)) \o CRLF \o EncodeElements(elements)

(***************************************************************************)
(* parse_resp: the result is                                               *)
(*   [kind |-> "none"]            the function returned None               *)
(*   [kind |-> "error"]           it raised (ValueError, IndexError,       *)
(*                                UnicodeDecodeError)                      *)
(*   [kind |-> "ok", elements]    the list it returned                     *)
(***************************************************************************)
ParseNone == [kind |-> "none", elements |-> <<>>]
ParseError == [kind |-> "error", elements |-> <<>>]
ParseOk(elements) == [kind |-> "ok", elements |-> elements]

RECURSIVE ParseLoop(_, _, _, _)
\* the while loop of parse_resp; i is the 1-based index of lines[i]
ParseLoop(lines, num_elements, elements, i) ==
    IF Len(elements) < num_elements /\ i <= Len(lines)
    THEN IF StartsWith(lines[i], DOLLAR)
         THEN IF ~IsInt(Tail(lines[i])) THEN ParseError
              ELSE IF i + 1 > Len(lines) THEN ParseError
              ELSE LET d == BytesDecode(lines[i + 1])
                   IN  IF ~d.ok THEN ParseError
                       ELSE ParseLoop(lines, num_elements, Append(elements, d.str), i + 2)
         ELSE ParseLoop(lines, num_elements, elements, i + 1)
    ELSE ParseOk(elements)

parse_resp(data) ==
    IF ~StartsWith(data, STAR) THEN ParseNone
    ELSE LET lines == SplitCRLF(data)
         IN  IF ~IsInt(Tail(lines[1])) THEN ParseError
             ELSE ParseLoop(lines, ToInt(Tail(lines[1])), <<>>, 2)

(***************************************************************************)
(* parse_multiple_resp_commands: the result is                             *)
(*   [ok, commands, remaining_data]; ok = FALSE when parse_resp raised     *)
(*   (the exception leaves the function).                                  *)
(***************************************************************************)
\* Python's lines[:n] and lines[n:] for any integer n
PySliceTo(lines, n) ==
    IF n >= 0 THEN Take(lines, IF n > Len(lines) THEN Len(lines) ELSE n)
    ELSE Take(lines, IF Len(lines) + n < 0 THEN 0 ELSE Len(lines) + n)

PySliceFrom(lines, n) ==
    IF n >= 0 THEN Drop(lines, IF n > Len(lines) THEN Len(lines) ELSE n)
    ELSE Drop(lines, IF Len(lines) + n < 0 THEN 0 ELSE Len(lines) + n)

RECURSIVE ParseMultipleLoop(_, _)
ParseMultipleLoop(commands, remaining_data) ==
    LET stop == [ok |-> TRUE, commands |-> commands, remaining_data |-> remaining_data]
    IN
    IF remaining_data = <<>> THEN stop
    ELSE IF ~StartsWith(remaining_data, STAR) THEN stop
    ELSE LET lines == SplitCRLF(remaining_data)
         IN
         IF Len(lines) < 2 THEN stop
         ELSE IF ~IsInt(Tail(lines[1])) THEN stop
         ELSE LET num_elements == ToInt(Tail(lines[1]))
                  lines_needed == 1 + (num_elements * 2)
              IN
              IF Len(lines) < lines_needed THEN stop
              ELSE LET command_lines == PySliceTo(lines, lines_needed)
                       command_data == JoinCRLF(command_lines) \o CRLF
                       command == parse_resp(command_data)
                       rest == JoinCRLF(PySliceFrom(lines, lines_needed))
                       cmds == IF command.kind = "ok" /\ command.elements # <<>>
                               THEN Append(commands, command.elements)
                               ELSE commands
                   IN
                   IF command.kind = "error"
                   THEN [ok |-> FALSE, commands |-> commands, remaining_data |-> remaining_data]
                   ELSE IF rest = <<>>
                        THEN [ok |-> TRUE, commands |-> cmds, remaining_data |-> <<>>]
                        ELSE ParseMultipleLoop(cmds, rest)

parse_multiple_resp_commands(data) == ParseMultipleLoop(<<>>, data)

(***************************************************************************)
(* The str and bytes literals of the code, as code points / bytes.         *)
(***************************************************************************)
sPING == <<80, 73, 78, 71>>
sECHO == <<69, 67, 72, 79>>
sSET == <<83, 69, 84>>
sGET == <<71, 69, 84>>
sCONFIG == <<67, 79, 78, 70, 73, 71>>
sKEYS == <<75, 69, 89, 83>>
sINFO == <<73, 78, 70, 79>>
sREPLICATION == <<82, 69, 80, 76, 73, 67, 65, 84, 73, 79, 78>>
sREPLCONF == <<82, 69, 80, 76, 67, 79, 78, 70>>
sPSYNC == <<80, 83, 89, 78, 67>>
sPX == <<80, 88>>
sGETACK == <<71, 69, 84, 65, 67, 75>>
sStar == <<STAR>>
\* b"+PONG\r\n"
RespPong == <<43, 80, 79, 78, 71, 13, 10>>
\* b"+OK\r\n"
RespOk == <<43, 79, 75, 13, 10>>
\* b"-ERR unknown command\r\n"
RespUnknown == <<45, 69, 82, 82, 32, 117, 110, 107, 110, 111, 119, 110, 32, 99, 111, 109, 109, 97, 110, 100, 13, 10>>
\* b"-ERR wrong number of arguments for 'set' command\r\n"
RespSetArity == <<45, 69, 82, 82, 32, 119, 114, 111, 110, 103, 32, 110, 117, 109, 98, 101, 114, 32, 111, 102, 32, 97, 114, 103, 117, 109, 101, 110, 116, 115, 32, 102, 111, 114, 32, 39, 115, 101, 116, 39, 32, 99, 111, 109, 109, 97, 110, 100, 13, 10>>
\* b"*0\r\n"
RespEmptyArray == <<42, 48, 13, 10>>
\* b"*3\r\n$8\r\nREPLCONF\r\n$3\r\nACK\r\n$1\r\n0\r\n"
AckResponse == <<42, 51, 13, 10, 36, 56, 13, 10, 82, 69, 80, 76, 67, 79, 78, 70, 13, 10, 36, 51, 13, 10, 65, 67, 75, 13, 10, 36, 49, 13, 10, 48, 13, 10>>
\* replication_config["master_replid"]
master_replid == <<56, 51, 55, 49, 98, 52, 102, 98, 49, 49, 53, 53, 98, 55, 49, 102, 52, 97, 48, 52, 100, 51, 101, 49, 98, 99, 51, 101, 49, 56, 99, 52, 97, 57, 57, 48, 97, 101, 101, 98>>
\* replication_config["master_repl_offset"]
master_repl_offset == 0
\* f"+FULLRESYNC {master_replid} {master_offset}\r\n".encode()
fullresync_response ==
    <<43, 70, 85, 76, 76, 82, 69, 83, 89, 78, 67, 32>> \o master_replid \o <<32>>
        \o ToDec(master_repl_offset) \o CRLF
\* bytes.fromhex(empty_rdb_hex) raises ValueError (the literal has an odd number
\* of digits), so handle_psync sends the fallback: REDIS0011, 0xFF, 8 zero bytes
empty_rdb_binary == <<82, 69, 68, 73, 83, 48, 48, 49, 49, 255, 0, 0, 0, 0, 0, 0, 0, 0>>
\* rdb_header + empty_rdb_binary: $<length>\r\n<binary_contents>
rdb_message == <<DOLLAR>> \o ToDec(Len(empty_rdb_binary)) \o CRLF \o empty_rdb_binary
sDir == <<100, 105, 114>>
sDbfilename == <<100, 98, 102, 105, 108, 101, 110, 97, 109, 101>>
\* the config dictionary (its defaults)
config == [k \in {sDir, sDbfilename} |->
              IF k = sDir THEN <<47, 116, 109, 112, 47, 114, 101, 100, 105, 115, 45, 102, 105, 108, 101, 115>>
              ELSE <<100, 117, 109, 112, 46, 114, 100, 98>>]

(***************************************************************************)
(* redis_store: a dict, kept as the sequence of its items in insertion     *)
(* order.  A value is a bare str (kind "str") or a dict with "value" and   *)
(* "expiry" (kind "dict"); expiry is in milliseconds of the model clock.   *)
(***************************************************************************)
NoEntry == [kind |-> "absent", value |-> <<>>, expiry |-> 0]
StrEntry(v) == [kind |-> "str", value |-> v, expiry |-> 0]
DictEntry(v, e) == [kind |-> "dict", value |-> v, expiry |-> e]

\* key in redis_store
Has(store, k) == \E i \in 1..Len(store) : store[i].key = k

\* redis_store[key] (for a key that is in it)
Lookup(store, k) == store[CHOOSE i \in 1..Len(store) : store[i].key = k].entry

\* redis_store[key] = entry
Assign(store, k, e) ==
    IF Has(store, k)
    THEN [i \in 1..Len(store) |-> IF store[i].key = k THEN [key |-> k, entry |-> e] ELSE store[i]]
    ELSE Append(store, [key |-> k, entry |-> e])

\* del redis_store[key]
Delete(store, k) == SelectSeq(store, LAMBDA it : it.key # k)

\* list(redis_store.keys())
KeysOf(store) == [i \in 1..Len(store) |-> store[i].key]

\* list.remove(x): the list without the first x
RemoveFirst(list, x) ==
    LET i == CHOOSE j \in 1..Len(list) : list[j] = x /\ \A h \in 1..(j - 1) : list[h] # x
    IN  SubSeq(list, 1, i - 1) \o SubSeq(list, i + 1, Len(list))

InList(list, x) == \E i \in 1..Len(list) : list[i] = x


(***************************************************************************)
(* Pure handlers.                                                          *)
(***************************************************************************)
handle_ping == RespPong

handle_echo(message) == encode_bulk_string(message)

handle_config_get(param_name) ==
    IF Lower(param_name) \in DOMAIN config
    THEN encode_resp_array(<<Lower(param_name), config[Lower(param_name)]>>)
    ELSE RespEmptyArray

\* replication_config["role"] as a str
RoleStr(r) == IF r = "master" THEN <<109, 97, 115, 116, 101, 114>> ELSE <<115, 108, 97, 118, 101>>

\* "\n".join(info_lines) as a bulk string
handle_info_replication(r) ==
    encode_bulk_string(
        <<114, 111, 108, 101, 58>> \o RoleStr(r) \o <<LF>>
        \o <<109, 97, 115, 116, 101, 114, 95, 114, 101, 112, 108, 105, 100, 58>> \o master_replid \o <<LF>>
        \o <<109, 97, 115, 116, 101, 114, 95, 114, 101, 112, 108, 95, 111, 102, 102, 115, 101, 116, 58>>
        \o ToDec(master_repl_offset))

handle_replconf(command) == RespOk

(***************************************************************************)
(* State.                                                                  *)
(***************************************************************************)
VARIABLES
    cFrames,    \* codec: the argument lists handed to encode_resp_array
    cData,      \* codec: the buffer handed to the decoder
    cResult,    \* codec: what the decoder returned
    cPc,        \* codec: "start", "encoded", "multi", "single"
    role,       \* replication_config["role"]: "master" or "slave"
    redis_store,            \* the keyspace
    replica_connections,    \* the replica registry: a list of connections
    now,        \* time.time(), in milliseconds
    pc,         \* per accepted connection: where its handle_connection thread is
    command,    \* per connection: the request being handled
    local,      \* per connection: the locals of its thread
    sock,       \* per connection: the socket (closed, peer_closed, sent)
    budget,     \* per connection: how many more requests its peer sends
    applied,    \* history: the SET commands in the order they were stored
    lastSet,    \* history: per key, the latest SET stored and whether it was answered
    obs,        \* history: per connection, what its GET or KEYS in progress may rely on
    inbox,      \* per connection: the bytes its peer sent that no recv has returned
                \* yet (wire, pending, splits as in master_socket) and, as
                \* history, the requests they encode (asked)
    mpc,        \* where the connect_to_master thread is
    master_socket,      \* its socket: wire (bytes sent by the primary and not yet
                        \* received), pending (the sizes of the sends they came
                        \* from), splits (how often a recv returned a proper part
                        \* of a send), sent (what was written to it), peer_closed,
                        \* closed
    rdb_header_data,    \* connect_to_master: the snapshot header read so far
    rdb_left,           \* connect_to_master: rdb_length - len(rdb_data)
    remaining_data,     \* connect_to_master: the residual buffer of the loop
    primary,    \* the primary at the other end: replies written, commands left to send
    hist        \* history: the commands the primary propagated, the bytes received

codecVars == <<cFrames, cData, cResult, cPc>>

serverVars == <<role, redis_store, replica_connections, now, pc, command, local, sock,
                budget, applied, lastSet, obs, inbox>>

replVars == <<mpc, master_socket, rdb_header_data, rdb_left, remaining_data, primary, hist>>

vars == <<cFrames, cData, cResult, cPc, role, redis_store, replica_connections, now, pc,
          command, local, sock, budget, applied, lastSet, obs, inbox, mpc, master_socket,
          rdb_header_data, rdb_left, remaining_data, primary, hist>>

\* the connections the accept loop may have handed to handle_connection threads
Conn == {"c1", "c2", "r1", "r2"}

\* a response of None
None == <<>>

InitLocal ==
    [key |-> <<>>, key_data |-> NoEntry, keys_list |-> <<>>, active_keys |-> <<>>,
     idx |-> 0, active_replicas |-> <<>>, response |-> None,
     is_replica_connection |-> FALSE, caller |-> "none"]

InitSock == [closed |-> FALSE, peer_closed |-> FALSE, sent |-> <<>>]

\* nothing was sent to the connection yet
InitInbox == [wire |-> <<>>, pending |-> <<>>, splits |-> 0, asked |-> <<>>]

\* the keys the requests of the model name: "k", "j"
KeyUniverse == {<<107>>, <<106>>}

NoSet ==
    [set |-> FALSE, value |-> <<>>, px |-> FALSE, expiry |-> 0, by |-> "none",
     acked |-> FALSE, over |-> "absent"]

NoObs ==
    [on |-> FALSE, key |-> <<>>, last |-> NoSet, t0 |-> 0, keys |-> FALSE, seen |-> {},
     attached |-> -1]

\* the keys stored and not expired at time t
LiveSet(store, t) ==
    {store[i].key : i \in {j \in 1..Len(store) :
        ~(store[j].entry.kind = "dict" /\ t > store[j].entry.expiry)}}

\* history bookkeeping after the keyspace or the clock changed: a GET in
\* progress on a key that was SET meanwhile relies on nothing; a KEYS in
\* progress has seen one more set of live keys
ObsAfter(written, store, t) ==
    [c \in Conn |->
        [obs[c] EXCEPT
            !.on = IF written = obs[c].key THEN FALSE ELSE @,
            !.seen = IF obs[c].keys THEN @ \cup {LiveSet(store, t)} ELSE @]]

\* no connection to a primary
InitMaster ==
    [wire |-> <<>>, pending |-> <<>>, splits |-> 0, sent |-> <<>>, peer_closed |-> FALSE,
     closed |-> FALSE]

InitPrimary == [answered |-> 0, left |-> 0]

InitHist == [stream |-> <<>>, consumed |-> 0, clean |-> TRUE]

\* the state of the replication thread before connect_to_master runs
ReplInit(at, left) ==
    /\ mpc = at
    /\ master_socket = InitMaster
    /\ rdb_header_data = <<>>
    /\ rdb_left = 0
    /\ remaining_data = <<>>
    /\ primary = [InitPrimary EXCEPT !.left = left]
    /\ hist = InitHist

\* the codec idles while the server runs
ServerInit(r, conns, store) ==
    /\ cFrames = <<>>
    /\ cData = <<>>
    /\ cResult = [ok |-> TRUE, commands |-> <<>>, remaining_data |-> <<>>]
    /\ cPc = "idle"
    /\ role = r
    /\ redis_store = store
    /\ replica_connections = <<>>
    /\ now = 0
    /\ pc = [c \in Conn |-> IF c \in conns THEN "recv" ELSE "none"]
    /\ command = [c \in Conn |-> <<>>]
    /\ local = [c \in Conn |-> InitLocal]
    /\ sock = [c \in Conn |-> InitSock]
    /\ applied = <<>>
    /\ lastSet = [k \in KeyUniverse |-> NoSet]
    /\ obs = [c \in Conn |-> NoObs]
    /\ inbox = [c \in Conn |-> InitInbox]
    /\ ReplInit("none", 0)

(***************************************************************************)
(* The codec on its own: encode a list of requests, decode the bytes.      *)
(***************************************************************************)
\* the str values requests are built from: "", "a", "b", CR LF, "$1", "*1",
\* U+00E9
ArgPool ==
    {<<>>, <<97>>, <<98>>, <<CR, LF>>, <<DOLLAR, ZERO + 1>>, <<STAR, ZERO + 1>>, <<233>>}

MaxArgs == 2
MaxFrames == 2

SeqsUpTo(S, n) == UNION {[1..k -> S] : k \in 0..n}

ArgLists == SeqsUpTo(ArgPool, MaxArgs)

RECURSIVE EncodeFrames(_)
\* the concatenation of the encodings of the requests
EncodeFrames(fs) ==
    IF fs = <<>> THEN <<>> ELSE encode_resp_array(Head(fs)) \o EncodeFrames(Tail(fs))

NoResult == [ok |-> TRUE, commands |-> <<>>, remaining_data |-> <<>>]

CodecInit ==
    /\ cFrames \in SeqsUpTo(ArgLists, MaxFrames)
    /\ cData = <<>>
    /\ cResult = NoResult
    /\ cPc = "start"
    /\ role = "master"
    /\ redis_store = <<>>
    /\ replica_connections = <<>>
    /\ now = 0
    /\ pc = [c \in Conn |-> "none"]
    /\ command = [c \in Conn |-> <<>>]
    /\ local = [c \in Conn |-> InitLocal]
    /\ sock = [c \in Conn |-> InitSock]
    /\ budget = [c \in Conn |-> 0]
    /\ applied = <<>>
    /\ lastSet = [k \in KeyUniverse |-> NoSet]
    /\ obs = [c \in Conn |-> NoObs]
    /\ inbox = [c \in Conn |-> InitInbox]
    /\ ReplInit("none", 0)

CodecEncode ==
    /\ cPc = "start"
    /\ cData' = EncodeFrames(cFrames)
    /\ cPc' = "encoded"
    /\ UNCHANGED <<cFrames, cResult>>
    /\ UNCHANGED <<serverVars, replVars>>

CodecParseMultiple ==
    /\ cPc = "encoded"
    /\ cResult' = parse_multiple_resp_commands(cData)
    /\ cPc' = "multi"
    /\ UNCHANGED <<cFrames, cData>>
    /\ UNCHANGED <<serverVars, replVars>>

\* parse_resp on the encoding of one request, as handle_connection calls it
CodecParseSingle ==
    /\ cPc = "encoded"
    /\ Len(cFrames) = 1
    /\ LET r == parse_resp(cData)
       IN  cResult' = [ok |-> r.kind # "error",
                       commands |-> IF r.kind = "ok" THEN <<r.elements>> ELSE <<>>,
                       remaining_data |-> <<>>]
    /\ cPc' = "single"
    /\ UNCHANGED <<cFrames, cData>>
    /\ UNCHANGED <<serverVars, replVars>>

\* the buffer ends after n bytes of the encoded requests, as after a recv that
\* returned a part of what the peer sent
CodecCut(n) ==
    /\ cPc = "encoded"
    /\ n \in 1..(Len(cData) - 1)
    /\ cData' = Take(cData, n)
    /\ cPc' = "cut"
    /\ UNCHANGED <<cFrames, cResult>>
    /\ UNCHANGED <<serverVars, replVars>>

\* commands, remaining_data = parse_multiple_resp_commands(remaining_data)
\* on the buffer that ends inside the encoded requests
CodecParsePartial ==
    /\ cPc = "cut"
    /\ cResult' = parse_multiple_resp_commands(cData)
    /\ cPc' = "partial"
    /\ UNCHANGED <<cFrames, cData>>
    /\ UNCHANGED <<serverVars, replVars>>

\* the rest arrives: remaining_data += data, and the decoder runs again; the
\* commands of both calls are kept in cResult
CodecParseRest ==
    /\ cPc = "partial"
    /\ cResult.ok
    /\ LET data == Drop(EncodeFrames(cFrames), Len(cData))
           r == parse_multiple_resp_commands(cResult.remaining_data \o data)
       IN  cResult' = [ok |-> r.ok, commands |-> cResult.commands \o r.commands,
                       remaining_data |-> r.remaining_data]
    /\ cPc' = "resumed"
    /\ UNCHANGED <<cFrames, cData>>
    /\ UNCHANGED <<serverVars, replVars>>

CodecNext ==
    \/ CodecEncode
    \/ CodecParseMultiple
    \/ CodecParseSingle
    \/ \E n \in 1..Len(cData) : CodecCut(n)
    \/ CodecParsePartial
    \/ CodecParseRest

SpecCodec == CodecInit /\ [][CodecNext]_vars

\* C10: for any concatenation of n complete request frames,
\* parse_multiple_resp_commands yields exactly the n encoded argument lists,
\* in order, with an empty residual.
C10_MultiFrameDecode ==
    cPc = "multi" =>
        /\ cResult.ok
        /\ cResult.commands = cFrames
        /\ cResult.remaining_data = <<>>

\* the length field of the encoding of value is the number of its bytes
LengthCountsBytes(value) ==
    encode_bulk_string(value) =
        <<DOLLAR>> \o ToDec(Len(StrEncode(value))) \o CRLF \o StrEncode(value) \o CRLF

\* C11: parse_resp(encode_resp_array(args)) equals args for arguments of any
\* content (CR and LF, the empty string, a leading $ or *), and the length
\* field of each encoded argument is its byte count.
C11_RoundTrip ==
    cPc = "single" =>
        /\ cResult.ok
        /\ cResult.commands = cFrames
        /\ \A i \in 1..Len(cFrames[1]) : LengthCountsBytes(cFrames[1][i])

\* the requests are ones the decoder returns unchanged when it is given all
\* of their bytes at once
WholeDecodes ==
    parse_multiple_resp_commands(EncodeFrames(cFrames)) =
        [ok |-> TRUE, commands |-> cFrames, remaining_data |-> <<>>]

\* how many of the requests lie wholly in the first n bytes of their encoding
CompleteFrames(n) ==
    Cardinality({j \in 1..Len(cFrames) : Len(EncodeFrames(SubSeq(cFrames, 1, j))) <= n})

\* C18: given a buffer that ends inside a frame, parse_multiple_resp_commands
\* returns the frames that are complete and leaves the bytes of the partial
\* frame untouched in the residual, so that no command is dispatched
\* truncated and appending the rest yields the full commands.
C18_Incremental ==
    WholeDecodes =>
        /\ cPc = "partial" =>
              LET j == CompleteFrames(Len(cData))
              IN  /\ cResult.ok
                  /\ cResult.commands = SubSeq(cFrames, 1, j)
                  /\ cResult.remaining_data =
                         Drop(cData, Len(EncodeFrames(SubSeq(cFrames, 1, j))))
        /\ cPc = "resumed" =>
              /\ cResult.ok
              /\ cResult.commands = cFrames
              /\ cResult.remaining_data = <<>>

(***************************************************************************)
(* handle_connection: one thread per accepted connection.  Each action is  *)
(* one step of the thread: one access to the shared keyspace, registry,    *)
(* clock or a socket, with the local computation that follows it.  The     *)
(* threads share redis_store and replica_connections without any lock.     *)
(***************************************************************************)
SetLocal(c, rec) == local' = [local EXCEPT ![c] = rec]

\* a worker without the finally clause, which ends on a break or an exception
\* without closing: what C23 excludes
RaiseSkipClose(c) == pc' = [pc EXCEPT ![c] = "done"]

\* an exception leaves the while loop: the except clause prints, then finally
Raise(c) == pc' = [pc EXCEPT ![c] = "finally"]

\* a dispatch that gives up the connection on a command it does not know
\* instead of answering it: what C16 excludes
DispatchPcClosing(cmd) ==
    LET command_name == Upper(cmd[1])
    IN  IF command_name = sPING THEN "send"
        ELSE IF command_name = sECHO THEN (IF Len(cmd) >= 2 THEN "send" ELSE "finally")
        ELSE IF command_name = sSET THEN "set"
        ELSE IF command_name = sGET THEN (IF Len(cmd) >= 2 THEN "get" ELSE "finally")
        ELSE IF command_name = sCONFIG /\ Len(cmd) = 3 /\ Upper(cmd[2]) = sGET THEN "send"
        ELSE IF command_name = sKEYS THEN (IF Len(cmd) >= 2 THEN "keys" ELSE "finally")
        ELSE IF command_name = sINFO /\ Len(cmd) = 2 /\ Upper(cmd[2]) = sREPLICATION THEN "send"
        ELSE IF command_name = sREPLCONF THEN "send"
        ELSE IF command_name = sPSYNC THEN "psync_fullresync"
        ELSE "finally"

\* a dispatch that skips a request without its argument and keeps the
\* connection: what C30 excludes
DispatchPcSkipping(cmd) ==
    LET command_name == Upper(cmd[1])
    IN  IF command_name = sPING THEN "send"
        ELSE IF command_name = sECHO THEN (IF Len(cmd) >= 2 THEN "send" ELSE "recv")
        ELSE IF command_name = sSET THEN "set"
        ELSE IF command_name = sGET THEN (IF Len(cmd) >= 2 THEN "get" ELSE "recv")
        ELSE IF command_name = sCONFIG /\ Len(cmd) = 3 /\ Upper(cmd[2]) = sGET THEN "send"
        ELSE IF command_name = sKEYS THEN (IF Len(cmd) >= 2 THEN "keys" ELSE "recv")
        ELSE IF command_name = sINFO /\ Len(cmd) = 2 /\ Upper(cmd[2]) = sREPLICATION THEN "send"
        ELSE IF command_name = sREPLCONF THEN "send"
        ELSE IF command_name = sPSYNC THEN "psync_fullresync"
        ELSE "send"

\* where the dispatch of handle_connection goes for a parsed command, and the
\* response of the handlers that touch no shared state
DispatchPc(cmd) ==
    LET command_name == Upper(cmd[1])
    IN  IF command_name = sPING THEN "send"
        ELSE IF command_name = sECHO THEN (IF Len(cmd) >= 2 THEN "send" ELSE "finally")
        ELSE IF command_name = sSET THEN "set"
        ELSE IF command_name = sGET THEN (IF Len(cmd) >= 2 THEN "get" ELSE "finally")
        ELSE IF command_name = sCONFIG /\ Len(cmd) = 3 /\ Upper(cmd[2]) = sGET THEN "send"
        ELSE IF command_name = sKEYS THEN (IF Len(cmd) >= 2 THEN "keys" ELSE "finally")
        ELSE IF command_name = sINFO /\ Len(cmd) = 2 /\ Upper(cmd[2]) = sREPLICATION THEN "send"
        ELSE IF command_name = sREPLCONF THEN "send"
        ELSE IF command_name = sPSYNC THEN "psync_fullresync"
        ELSE "send"

DispatchResponse(cmd, r) ==
    LET command_name == Upper(cmd[1])
    IN  IF command_name = sPING THEN handle_ping
        ELSE IF command_name = sECHO THEN (IF Len(cmd) >= 2 THEN handle_echo(cmd[2]) ELSE None)
        ELSE IF command_name = sSET THEN None
        ELSE IF command_name = sGET THEN None
        ELSE IF command_name = sCONFIG /\ Len(cmd) = 3 /\ Upper(cmd[2]) = sGET
             THEN handle_config_get(cmd[3])
        ELSE IF command_name = sKEYS THEN None
        ELSE IF command_name = sINFO /\ Len(cmd) = 2 /\ Upper(cmd[2]) = sREPLICATION
             THEN handle_info_replication(r)
        ELSE IF command_name = sREPLCONF THEN handle_replconf(cmd)
        ELSE IF command_name = sPSYNC THEN None
        ELSE RespUnknown

\* what a GET or KEYS that starts now may rely on
ObsStart(cmd) ==
    IF Len(cmd) >= 2 /\ Upper(cmd[1]) = sGET /\ cmd[2] \in KeyUniverse
    THEN [on |-> lastSet[cmd[2]].set /\ lastSet[cmd[2]].acked, key |-> cmd[2],
          last |-> lastSet[cmd[2]], t0 |-> now, keys |-> FALSE, seen |-> {},
          attached |-> -1]
    ELSE IF Len(cmd) >= 2 /\ Upper(cmd[1]) = sKEYS
    THEN [on |-> FALSE, key |-> <<>>, last |-> NoSet, t0 |-> now, keys |-> TRUE,
          seen |-> {LiveSet(redis_store, now)}, attached |-> -1]
    ELSE NoObs

\* data = connection.recv(1024) returns one request of the peer;
\* command = parse_resp(data); the dispatch on command[0].upper()
Recv(c, request) ==
    /\ pc[c] = "recv"
    /\ budget[c] > 0
    /\ ~sock[c].peer_closed
    /\ budget' = [budget EXCEPT ![c] = @ - 1]
    /\ LET parsed == parse_resp(encode_resp_array(request))
       IN  IF parsed.kind # "ok" \/ parsed.elements = <<>>
           THEN /\ Raise(c)
                /\ UNCHANGED <<command, local, obs>>
           ELSE /\ command' = [command EXCEPT ![c] = parsed.elements]
                /\ pc' = [pc EXCEPT ![c] = DispatchPc(parsed.elements)]
                /\ SetLocal(c, [local[c] EXCEPT
                                   !.response = DispatchResponse(parsed.elements, role)])
                /\ obs' = [obs EXCEPT ![c] = ObsStart(parsed.elements)]
    /\ UNCHANGED <<codecVars, replVars, inbox, role, redis_store, replica_connections, now, sock, applied,
                   lastSet>>

\* the peer closes its end of the connection
PeerClose(c) ==
    /\ pc[c] \notin {"none", "done", "dead"}
    /\ ~sock[c].peer_closed
    /\ sock' = [sock EXCEPT ![c].peer_closed = TRUE]
    /\ UNCHANGED <<codecVars, replVars, inbox, role, redis_store, replica_connections, now, pc, command,
                   local, budget, applied, lastSet, obs>>

\* connection.recv(1024) returns b"": break
RecvEOF(c) ==
    /\ pc[c] = "recv"
    /\ sock[c].peer_closed
    /\ Raise(c)
    /\ UNCHANGED <<codecVars, replVars, inbox, role, redis_store, replica_connections, now, command, local,
                   sock, budget, applied, lastSet, obs>>

\* handle_set up to the call of propagate_command_to_replicas (silent=False)
HandleSet(c) ==
    /\ pc[c] = "set"
    /\ LET cmd == command[c]
           after == IF role = "master" THEN "prop_check" ELSE "send"
           prior == IF Has(redis_store, cmd[2]) THEN Lookup(redis_store, cmd[2]).kind
                    ELSE "absent"
       IN  IF Len(cmd) = 3
           THEN /\ redis_store' = Assign(redis_store, cmd[2], StrEntry(cmd[3]))
                /\ SetLocal(c, [local[c] EXCEPT !.response = RespOk])
                /\ pc' = [pc EXCEPT ![c] = after]
                /\ applied' = Append(applied, cmd)
                /\ lastSet' = [k \in KeyUniverse |->
                      IF k = cmd[2]
                      THEN [set |-> TRUE, value |-> cmd[3], px |-> FALSE, expiry |-> 0,
                            by |-> c, acked |-> FALSE, over |-> prior]
                      ELSE lastSet[k]]
                /\ obs' = ObsAfter(cmd[2], redis_store', now)
           ELSE IF Len(cmd) = 5 /\ Upper(cmd[4]) = sPX
           THEN IF ~IsInt(cmd[5])
                THEN /\ Raise(c)
                     /\ UNCHANGED <<redis_store, local, applied, lastSet, obs>>
                ELSE /\ redis_store' = Assign(redis_store, cmd[2],
                                              DictEntry(cmd[3], now + ToInt(cmd[5])))
                     /\ SetLocal(c, [local[c] EXCEPT !.response = RespOk])
                     /\ pc' = [pc EXCEPT ![c] = after]
                     /\ applied' = Append(applied, cmd)
                     /\ lastSet' = [k \in KeyUniverse |->
                           IF k = cmd[2]
                           THEN [set |-> TRUE, value |-> cmd[3], px |-> TRUE,
                                 expiry |-> now + ToInt(cmd[5]), by |-> c,
                                 acked |-> FALSE, over |-> prior]
                           ELSE lastSet[k]]
                     /\ obs' = ObsAfter(cmd[2], redis_store', now)
           ELSE /\ SetLocal(c, [local[c] EXCEPT !.response = RespSetArity])
                /\ pc' = [pc EXCEPT ![c] = "send"]
                /\ UNCHANGED <<redis_store, applied, lastSet, obs>>
    /\ UNCHANGED <<codecVars, replVars, inbox, role, replica_connections, now, command, sock, budget>>

\* propagate_command_to_replicas: if not replica_connections: return
PropCheck(c) ==
    /\ pc[c] = "prop_check"
    /\ IF replica_connections = <<>>
       THEN /\ pc' = [pc EXCEPT ![c] = "send"]
            /\ UNCHANGED local
       ELSE /\ pc' = [pc EXCEPT ![c] = "prop_send"]
            /\ SetLocal(c, [local[c] EXCEPT !.idx = 0, !.active_replicas = <<>>])
    /\ UNCHANGED <<codecVars, replVars, inbox, role, redis_store, replica_connections, now, command, sock,
                   budget, applied, lastSet, obs>>

\* one iteration of the for loop: replica_conn.send(command_resp) returns
PropSendOk(c) ==
    /\ pc[c] = "prop_send"
    /\ local[c].idx < Len(replica_connections)
    /\ LET replica_conn == replica_connections[local[c].idx + 1]
       IN  /\ ~sock[replica_conn].closed
           /\ sock' = [sock EXCEPT ![replica_conn].sent =
                                        Append(@, encode_resp_array(command[c]))]
           /\ SetLocal(c, [local[c] EXCEPT !.idx = @ + 1,
                                           !.active_replicas = Append(@, replica_conn)])
    /\ UNCHANGED <<codecVars, replVars, inbox, role, redis_store, replica_connections, now, pc, command,
                   budget, applied, lastSet, obs>>

\* one iteration of the for loop: replica_conn.send(command_resp) raises (the
\* socket was closed here, or the peer is gone)
PropSendFail(c) ==
    /\ pc[c] = "prop_send"
    /\ local[c].idx < Len(replica_connections)
    /\ LET replica_conn == replica_connections[local[c].idx + 1]
       IN  sock[replica_conn].closed \/ sock[replica_conn].peer_closed
    /\ SetLocal(c, [local[c] EXCEPT !.idx = @ + 1])
    /\ UNCHANGED <<codecVars, replVars, inbox, role, redis_store, replica_connections, now, pc, command,
                   sock, budget, applied, lastSet, obs>>

\* one iteration of the for loop: replica_conn.send(command_resp) raises
\* socket.timeout: the worker of the replica connection has set a timeout of
\* one second on the socket, and the peer does not read
PropSendTimeout(c) ==
    /\ pc[c] = "prop_send"
    /\ local[c].idx < Len(replica_connections)
    /\ LET replica_conn == replica_connections[local[c].idx + 1]
       IN  /\ pc[replica_conn] = "drain"
           /\ ~sock[replica_conn].closed
           /\ ~sock[replica_conn].peer_closed
    /\ SetLocal(c, [local[c] EXCEPT !.idx = @ + 1])
    /\ UNCHANGED <<codecVars, replVars, inbox, role, redis_store, replica_connections, now,
                   pc, command, sock, budget, applied, lastSet, obs>>

\* the list iterator is exhausted
PropLoopEnd(c) ==
    /\ pc[c] = "prop_send"
    /\ local[c].idx >= Len(replica_connections)
    /\ pc' = [pc EXCEPT ![c] = "prop_assign"]
    /\ UNCHANGED <<codecVars, replVars, inbox, role, redis_store, replica_connections, now, command, local,
                   sock, budget, applied, lastSet, obs>>

\* replica_connections[:] = active_replicas
PropAssign(c) ==
    /\ pc[c] = "prop_assign"
    /\ replica_connections' = local[c].active_replicas
    /\ pc' = [pc EXCEPT ![c] = "send"]
    /\ SetLocal(c, [local[c] EXCEPT !.idx = 0, !.active_replicas = <<>>])
    /\ UNCHANGED <<codecVars, replVars, inbox, role, redis_store, now, command, sock, budget, applied,
                   lastSet, obs>>

\* the history after the reply to c's request was written
AckedAfter(c) ==
    [k \in KeyUniverse |->
        IF Upper(command[c][1]) = sSET /\ local[c].response = RespOk
           /\ command[c][2] = k /\ lastSet[k].by = c
        THEN [lastSet[k] EXCEPT !.acked = TRUE]
        ELSE lastSet[k]]

\* connection.send(response) returns; back to recv
SendOk(c) ==
    /\ pc[c] = "send"
    /\ local[c].response # None
    /\ ~local[c].is_replica_connection
    /\ sock' = [sock EXCEPT ![c].sent = Append(@, local[c].response)]
    /\ pc' = [pc EXCEPT ![c] = "recv"]
    /\ lastSet' = AckedAfter(c)
    /\ obs' = [obs EXCEPT ![c] = NoObs]
    /\ command' = [command EXCEPT ![c] = <<>>]
    /\ SetLocal(c, InitLocal)
    /\ UNCHANGED <<codecVars, replVars, inbox, role, redis_store, replica_connections, now, budget, applied>>

\* connection.send(response) raises: the peer is gone
SendFail(c) ==
    /\ pc[c] = "send"
    /\ local[c].response # None
    /\ ~local[c].is_replica_connection
    /\ sock[c].peer_closed
    /\ Raise(c)
    /\ UNCHANGED <<codecVars, replVars, inbox, role, redis_store, replica_connections, now, command, local,
                   sock, budget, applied, lastSet, obs>>

\* handle_get: key in redis_store, then the call of is_key_expired
HandleGet(c) ==
    /\ pc[c] = "get"
    /\ IF Has(redis_store, command[c][2])
       THEN /\ pc' = [pc EXCEPT ![c] = "exp_in"]
            /\ SetLocal(c, [local[c] EXCEPT !.key = command[c][2], !.caller = "get"])
       ELSE /\ pc' = [pc EXCEPT ![c] = "send"]
            /\ SetLocal(c, [local[c] EXCEPT !.response = encode_null_bulk_string])
    /\ UNCHANGED <<codecVars, replVars, inbox, role, redis_store, replica_connections, now, command, sock,
                   budget, applied, lastSet, obs>>

\* the for loop of handle_keys after is_key_expired returned for one key, or
\* at its start: the next key, or the response
KeysAdvance(l) ==
    IF l.idx < Len(l.keys_list)
    THEN [l EXCEPT !.key = l.keys_list[l.idx + 1], !.caller = "keys"]
    ELSE [l EXCEPT !.response = encode_resp_array(l.active_keys)]

KeysAdvancePc(l) == IF l.idx < Len(l.keys_list) THEN "exp_in" ELSE "send"

\* is_key_expired returns result to its caller
ExpReturn(c, l, result) ==
    IF l.caller = "get"
    THEN IF result
         THEN /\ pc' = [pc EXCEPT ![c] = "send"]
              /\ SetLocal(c, [l EXCEPT !.response = encode_null_bulk_string])
         ELSE /\ pc' = [pc EXCEPT ![c] = "get_read"]
              /\ SetLocal(c, l)
    ELSE LET l2 == [l EXCEPT !.idx = @ + 1,
                             !.active_keys = IF result THEN @ ELSE Append(@, l.key)]
         IN  /\ pc' = [pc EXCEPT ![c] = KeysAdvancePc(l2)]
             /\ SetLocal(c, KeysAdvance(l2))

\* is_key_expired: if key not in redis_store: return False
ExpIn(c) ==
    /\ pc[c] = "exp_in"
    /\ IF Has(redis_store, local[c].key)
       THEN /\ pc' = [pc EXCEPT ![c] = "exp_load"]
            /\ UNCHANGED local
       ELSE ExpReturn(c, local[c], FALSE)
    /\ UNCHANGED <<codecVars, replVars, inbox, role, redis_store, replica_connections, now, command, sock,
                   budget, applied, lastSet, obs>>

\* is_key_expired: key_data = redis_store[key] (KeyError when the key is gone)
ExpLoad(c) ==
    /\ pc[c] = "exp_load"
    /\ IF ~Has(redis_store, local[c].key)
       THEN /\ Raise(c)
            /\ UNCHANGED local
       ELSE LET key_data == Lookup(redis_store, local[c].key)
            IN  IF key_data.kind = "dict"
                THEN /\ pc' = [pc EXCEPT ![c] = "exp_time"]
                     /\ SetLocal(c, [local[c] EXCEPT !.key_data = key_data])
                ELSE ExpReturn(c, local[c], FALSE)
    /\ UNCHANGED <<codecVars, replVars, inbox, role, redis_store, replica_connections, now, command, sock,
                   budget, applied, lastSet, obs>>

\* is_key_expired: if time.time() > key_data["expiry"]
ExpTime(c) ==
    /\ pc[c] = "exp_time"
    /\ IF now > local[c].key_data.expiry
       THEN /\ pc' = [pc EXCEPT ![c] = "exp_del"]
            /\ UNCHANGED local
       ELSE ExpReturn(c, [local[c] EXCEPT !.key_data = NoEntry], FALSE)
    /\ UNCHANGED <<codecVars, replVars, inbox, role, redis_store, replica_connections, now, command, sock,
                   budget, applied, lastSet, obs>>

\* is_key_expired: del redis_store[key] (KeyError when the key is gone)
ExpDel(c) ==
    /\ pc[c] = "exp_del"
    /\ IF ~Has(redis_store, local[c].key)
       THEN /\ Raise(c)
            /\ UNCHANGED <<local, redis_store, obs>>
       ELSE /\ redis_store' = Delete(redis_store, local[c].key)
            /\ obs' = ObsAfter(<<>>, redis_store', now)
            /\ ExpReturn(c, [local[c] EXCEPT !.key_data = NoEntry], TRUE)
    /\ UNCHANGED <<codecVars, replVars, inbox, role, replica_connections, now, command, sock, budget,
                   applied, lastSet>>

\* handle_get: key_data = redis_store[key] (KeyError when the key is gone)
GetRead(c) ==
    /\ pc[c] = "get_read"
    /\ IF ~Has(redis_store, command[c][2])
       THEN /\ Raise(c)
            /\ UNCHANGED local
       ELSE /\ pc' = [pc EXCEPT ![c] = "send"]
            /\ SetLocal(c, [local[c] EXCEPT !.response =
                    encode_bulk_string(Lookup(redis_store, command[c][2]).value)])
    /\ UNCHANGED <<codecVars, replVars, inbox, role, redis_store, replica_connections, now, command, sock,
                   budget, applied, lastSet, obs>>

\* handle_keys: list(redis_store.keys()) for "*", an empty array otherwise
HandleKeys(c) ==
    /\ pc[c] = "keys"
    /\ IF command[c][2] = sStar
       THEN LET l == [local[c] EXCEPT !.keys_list = KeysOf(redis_store),
                                      !.active_keys = <<>>, !.idx = 0]
            IN  /\ pc' = [pc EXCEPT ![c] = KeysAdvancePc(l)]
                /\ SetLocal(c, KeysAdvance(l))
       ELSE /\ pc' = [pc EXCEPT ![c] = "send"]
            /\ SetLocal(c, [local[c] EXCEPT !.response = RespEmptyArray])
    /\ UNCHANGED <<codecVars, replVars, inbox, role, redis_store, replica_connections, now, command, sock,
                   budget, applied, lastSet, obs>>

\* a handle_psync that appends the connection to replica_connections before
\* it sends the snapshot instead of after: what C13 excludes
PsyncRegisterFirst(c) ==
    /\ pc[c] = "psync_fullresync"
    /\ sock' = [sock EXCEPT ![c].sent = Append(@, fullresync_response)]
    /\ replica_connections' = Append(replica_connections, c)
    /\ pc' = [pc EXCEPT ![c] = "psync_rdb"]
    /\ UNCHANGED <<codecVars, replVars, inbox, role, redis_store, now, command, local,
                   budget, applied, lastSet, obs>>

\* handle_psync: connection.send(fullresync_response)
PsyncFullresync(c) ==
    /\ pc[c] = "psync_fullresync"
    /\ sock' = [sock EXCEPT ![c].sent = Append(@, fullresync_response)]
    /\ pc' = [pc EXCEPT ![c] = "psync_rdb"]
    /\ UNCHANGED <<codecVars, replVars, inbox, role, redis_store, replica_connections, now, command, local,
                   budget, applied, lastSet, obs>>

\* handle_psync: connection.send(rdb_header + empty_rdb_binary)
PsyncRdb(c) ==
    /\ pc[c] = "psync_rdb"
    /\ sock' = [sock EXCEPT ![c].sent = Append(@, rdb_message)]
    /\ pc' = [pc EXCEPT ![c] = "psync_append"]
    /\ UNCHANGED <<codecVars, replVars, inbox, role, redis_store, replica_connections, now, command, local,
                   budget, applied, lastSet, obs>>

\* a handle_psync that registers the connection whatever the role of the
\* server: what C25 excludes
PsyncAppendAnyRole(c) ==
    /\ pc[c] = "psync_append"
    /\ replica_connections' = Append(replica_connections, c)
    /\ SetLocal(c, [local[c] EXCEPT !.is_replica_connection = TRUE, !.response = None])
    /\ pc' = [pc EXCEPT ![c] = "drain"]
    /\ obs' = [obs EXCEPT ![c] = [NoObs EXCEPT !.attached = Len(applied)]]
    /\ UNCHANGED <<codecVars, replVars, inbox, role, redis_store, now, command, sock, budget,
                   applied, lastSet>>

\* handle_psync: replica_connections.append(connection) on a master; the
\* caller sets is_replica_connection and enters the inner loop
PsyncAppend(c) ==
    /\ pc[c] = "psync_append"
    /\ replica_connections' =
           IF role = "master" THEN Append(replica_connections, c) ELSE replica_connections
    /\ SetLocal(c, [local[c] EXCEPT !.is_replica_connection = TRUE, !.response = None])
    /\ pc' = [pc EXCEPT ![c] = "drain"]
    /\ obs' = [obs EXCEPT ![c] = [NoObs EXCEPT !.attached = Len(applied)]]
    /\ UNCHANGED <<codecVars, replVars, inbox, role, redis_store, now, command, sock, budget, applied,
                   lastSet>>

\* an inner loop that goes on serving the requests it reads: what C20
\* excludes
DrainServing(c, request) ==
    /\ pc[c] = "drain"
    /\ budget[c] > 0
    /\ ~sock[c].peer_closed
    /\ budget' = [budget EXCEPT ![c] = @ - 1]
    /\ command' = [command EXCEPT ![c] = request]
    /\ pc' = [pc EXCEPT ![c] = DispatchPc(request)]
    /\ SetLocal(c, [local[c] EXCEPT !.is_replica_connection = FALSE,
                                    !.response = DispatchResponse(request, role)])
    /\ UNCHANGED <<codecVars, replVars, inbox, role, redis_store, replica_connections, now,
                   sock, applied, lastSet, obs>>

\* the inner loop: data = connection.recv(1024) returns bytes, which are ignored
Drain(c, request) ==
    /\ pc[c] = "drain"
    /\ budget[c] > 0
    /\ ~sock[c].peer_closed
    /\ budget' = [budget EXCEPT ![c] = @ - 1]
    /\ command' = [command EXCEPT ![c] = request]
    /\ UNCHANGED <<codecVars, replVars, inbox, role, redis_store, replica_connections, now, pc, local, sock,
                   applied, lastSet, obs>>

\* the inner loop: recv returns b"" (or raises): break, break
DrainEOF(c) ==
    /\ pc[c] = "drain"
    /\ sock[c].peer_closed
    /\ Raise(c)
    /\ UNCHANGED <<codecVars, replVars, inbox, role, redis_store, replica_connections, now, command, local,
                   sock, budget, applied, lastSet, obs>>

\* finally: connection.close() for a client connection
FinallyClose(c) ==
    /\ pc[c] = "finally"
    /\ ~local[c].is_replica_connection
    /\ sock' = [sock EXCEPT ![c].closed = TRUE]
    /\ pc' = [pc EXCEPT ![c] = "done"]
    /\ obs' = [obs EXCEPT ![c] = NoObs]
    /\ UNCHANGED <<codecVars, replVars, inbox, role, redis_store, replica_connections, now, command, local,
                   budget, applied, lastSet>>

\* finally: if connection in replica_connections
CleanupIn(c) ==
    /\ pc[c] = "finally"
    /\ local[c].is_replica_connection
    /\ pc' = [pc EXCEPT ![c] = IF InList(replica_connections, c)
                               THEN "cleanup_remove" ELSE "cleanup_close"]
    /\ UNCHANGED <<codecVars, replVars, inbox, role, redis_store, replica_connections, now, command, local,
                   sock, budget, applied, lastSet, obs>>

\* finally: replica_connections.remove(connection); ValueError when a
\* fan-out has replaced the list meanwhile, and the thread ends without close
CleanupRemove(c) ==
    /\ pc[c] = "cleanup_remove"
    /\ IF InList(replica_connections, c)
       THEN /\ replica_connections' = RemoveFirst(replica_connections, c)
            /\ pc' = [pc EXCEPT ![c] = "cleanup_close"]
       ELSE /\ pc' = [pc EXCEPT ![c] = "dead"]
            /\ UNCHANGED replica_connections
    /\ UNCHANGED <<codecVars, replVars, inbox, role, redis_store, now, command, local, sock, budget, applied,
                   lastSet, obs>>

\* finally: connection.close() for a replica connection
CleanupClose(c) ==
    /\ pc[c] = "cleanup_close"
    /\ sock' = [sock EXCEPT ![c].closed = TRUE]
    /\ pc' = [pc EXCEPT ![c] = "done"]
    /\ UNCHANGED <<codecVars, replVars, inbox, role, redis_store, replica_connections, now, command, local,
                   budget, applied, lastSet, obs>>

MaxTime == 2

\* time passes
Tick ==
    /\ now < MaxTime
    /\ now' = now + 1
    /\ obs' = ObsAfter(<<>>, redis_store, now')
    /\ UNCHANGED <<codecVars, replVars, inbox, role, redis_store, replica_connections, pc, command, local,
                   sock, budget, applied, lastSet>>

\* handle_psync: a send raises, the peer is gone
PsyncSendFail(c) ==
    /\ pc[c] \in {"psync_fullresync", "psync_rdb"}
    /\ sock[c].peer_closed
    /\ Raise(c)
    /\ UNCHANGED <<codecVars, replVars, inbox, role, redis_store, replica_connections, now, command, local,
                   sock, budget, applied, lastSet, obs>>

(***************************************************************************)
(* The keyspace under concurrent clients: two client connections on a      *)
(* primary, each sending requests on the key "k", while time passes.       *)
(***************************************************************************)
kK == <<107>>
vA == <<97>>
vB == <<98>>

MaxRequests == 2

\* px values of the requests, in milliseconds ("1")
KVRequests ==
    { <<sSET, kK, vA>>,
      <<sSET, kK, vB, <<112, 120>>, <<ZERO + 1>>>>,
      <<sGET, kK>>,
      <<sKEYS, sStar>>,
      <<sKEYS, kK>> }

KVConns == {"c1", "c2"}

KVInit ==
    /\ ServerInit("master", KVConns, <<>>)
    /\ budget = [c \in Conn |-> IF c \in KVConns THEN MaxRequests ELSE 0]

KVNext ==
    \/ Tick
    \/ \E c \in KVConns :
        \/ \E request \in KVRequests : Recv(c, request)
        \/ HandleSet(c)
        \/ PropCheck(c)
        \/ SendOk(c)
        \/ HandleGet(c)
        \/ ExpIn(c)
        \/ ExpLoad(c)
        \/ ExpTime(c)
        \/ ExpDel(c)
        \/ GetRead(c)
        \/ HandleKeys(c)
        \/ FinallyClose(c)

SpecKV == KVInit /\ [][KVNext]_vars

\* the response a thread is about to send, or has none to send
Replying(c) == pc[c] = "send"

\* the thread left its loop on an exception or a break
Failed(c) == pc[c] = "finally"

\* C3: after SET k v has completed with reply OK and no other SET of k since,
\* GET k returns v as a bulk string.
C3_SetThenGet ==
    \A c \in KVConns :
        (obs[c].on /\ ~obs[c].last.px) =>
            /\ ~Failed(c)
            /\ Replying(c) => local[c].response = encode_bulk_string(obs[c].last.value)

\* C4: after SET k v PX ms was answered OK (and no other SET of k since), GET k
\* returns v while the clock is not past the expiry, and the null bulk string
\* when the GET starts after the expiry.
C4_ExpiryThenGet ==
    \A c \in KVConns :
        (obs[c].on /\ obs[c].last.px) =>
            /\ ~Failed(c)
            /\ (Replying(c) /\ now <= obs[c].last.expiry) =>
                   local[c].response = encode_bulk_string(obs[c].last.value)
            /\ (Replying(c) /\ obs[c].t0 > obs[c].last.expiry) =>
                   local[c].response = encode_null_bulk_string

\* C5: SET k v' without PX on a key that exists replaces the value and clears
\* the expiry: GET k returns v' at every later time.
C5_SetReplaces ==
    \A c \in KVConns :
        (obs[c].on /\ ~obs[c].last.px /\ obs[c].last.over # "absent") =>
            /\ ~Failed(c)
            /\ Replying(c) => local[c].response = encode_bulk_string(obs[c].last.value)

\* s has no element twice
NoDuplicates(s) == \A i, j \in 1..Len(s) : s[i] = s[j] => i = j

Range(s) == {s[i] : i \in 1..Len(s)}

\* C6: KEYS * returns exactly the keys present and unexpired at the time of
\* the call (at some instant of it), each once, and leaves no entry stored
\* that had expired when it began; KEYS with another pattern returns an empty
\* array.
C6_KeysAll ==
    \A c \in KVConns :
        obs[c].keys =>
            /\ ~Failed(c)
            /\ (Replying(c) /\ command[c][2] = sStar) =>
                   /\ local[c].response = encode_resp_array(local[c].active_keys)
                   /\ NoDuplicates(local[c].active_keys)
                   /\ Range(local[c].active_keys) \in obs[c].seen
                   /\ \A i \in 1..Len(redis_store) :
                          ~(redis_store[i].entry.kind = "dict"
                            /\ obs[c].t0 > redis_store[i].entry.expiry)
            /\ (Replying(c) /\ command[c][2] # sStar) =>
                   local[c].response = RespEmptyArray

\* C24: the keyspace is safe for concurrent use: under any interleaving of
\* GET, KEYS * and SET on one key by different workers, also while the key's
\* expiry instant passes, no worker fails with an internal error or drops
\* its connection, every request gets a reply, and GET returns null or a
\* value that some SET installed.
C24_KeyspaceSafe ==
    \A c \in KVConns :
        /\ ~Failed(c)
        /\ pc[c] # "done"
        /\ ~sock[c].closed
        /\ (Replying(c) /\ Upper(command[c][1]) = sGET) =>
              \/ local[c].response = encode_null_bulk_string
              \/ \E i \in 1..Len(applied) :
                    local[c].response = encode_bulk_string(applied[i][3])

(***************************************************************************)
(* The primary's fan-out: two client connections sending SET and two       *)
(* connections of replicas, which send PSYNC and may go away.              *)
(***************************************************************************)
FanoutClients == {"c1", "c2"}
FanoutReplicas == {"r1", "r2"}

\* PSYNC ? -1
PsyncRequest == <<sPSYNC, <<63>>, <<MINUS, ZERO + 1>>>>

FanoutRequests(c) ==
    IF c \in FanoutReplicas THEN {PsyncRequest}
    ELSE IF c = "c1" THEN {<<sSET, kK, vA>>}
    ELSE {<<sSET, kK, vB>>}

FanoutInit ==
    /\ ServerInit("master", FanoutClients \cup FanoutReplicas, <<>>)
    /\ budget = [c \in Conn |-> 1]

FanoutNext ==
    \/ \E c \in FanoutClients \cup FanoutReplicas :
        \/ \E request \in FanoutRequests(c) : Recv(c, request)
        \/ HandleSet(c)
        \/ PropCheck(c)
        \/ PropSendOk(c)
        \/ PropSendFail(c)
        \/ PropLoopEnd(c)
        \/ PropAssign(c)
        \/ SendOk(c)
        \/ PsyncFullresync(c)
        \/ PsyncRdb(c)
        \/ PsyncAppend(c)
        \/ DrainEOF(c)
        \/ CleanupIn(c)
        \/ CleanupRemove(c)
        \/ CleanupClose(c)
    \/ \E c \in FanoutReplicas : pc[c] = "drain" /\ PeerClose(c)

SpecFanout == FanoutInit /\ [][FanoutNext]_vars

\* what was written to a replica connection after FULLRESYNC and the snapshot
Propagated(r) == Drop(sock[r].sent, 2)

\* no SET is between its arrival and its reply
NoSetInFlight == \A c \in Conn : pc[c] \in {"none", "recv", "done", "drain"}

\* the replica connection is registered, open, and was registered before
\* the first SET was stored
LiveFromStart(r) ==
    /\ pc[r] = "drain"
    /\ obs[r].attached = 0
    /\ ~sock[r].closed
    /\ ~sock[r].peer_closed

\* C1: every replica channel that stays live receives the RESP encodings of
\* exactly the accepted SET commands, each once, in the same order on every
\* channel, which is the order the primary stored them in its keyspace.
C1_FanoutOrder ==
    NoSetInFlight =>
        \A r \in FanoutReplicas :
            LiveFromStart(r) =>
                Propagated(r) = [i \in 1..Len(applied) |-> encode_resp_array(applied[i])]

\* +FULLRESYNC <replid> 0 CR LF
FullresyncLine ==
    <<43, 70, 85, 76, 76, 82, 69, 83, 89, 78, 67, 32>> \o master_replid \o <<32, ZERO>> \o CRLF

\* $<len> CR LF and len payload bytes, without a trailing CR LF
SnapshotBulk(payload) == <<DOLLAR>> \o ToDec(Len(payload)) \o CRLF \o payload

\* C13: on every connection that issued PSYNC the primary writes the
\* FULLRESYNC line, then the snapshot as $<len> CR LF and exactly len bytes,
\* then only RESP-array encodings of propagated commands; the connection is
\* in the replica registry only after the snapshot was written.
C13_PsyncOrder ==
    \A r \in FanoutReplicas :
        /\ Len(sock[r].sent) >= 1 => sock[r].sent[1] = FullresyncLine
        /\ Len(sock[r].sent) >= 2 => sock[r].sent[2] = SnapshotBulk(empty_rdb_binary)
        /\ \A i \in 3..Len(sock[r].sent) :
               \E j \in 1..Len(applied) : sock[r].sent[i] = encode_resp_array(applied[j])
        /\ InList(replica_connections, r) => Len(sock[r].sent) >= 2

\* a replica connection has received FULLRESYNC, the snapshot and a command
C13_Witness ==
    \E r \in FanoutReplicas :
        /\ Len(sock[r].sent) >= 3
        /\ sock[r].sent[3] = encode_resp_array(<<sSET, kK, vA>>)

\* the worker of r has registered it, sits in the inner loop, and neither
\* end has closed the connection: no EOF, no error and no failed write
Attached(r) ==
    /\ pc[r] = "drain"
    /\ ~sock[r].closed
    /\ ~sock[r].peer_closed

\* C21: a connection registered by PSYNC stays in the replica registry until
\* a write to it fails or EOF or an error is seen on it, also when a fan-out
\* runs while the connection registers; every SET accepted after the
\* registration is sent to it.
C21_RegistryLifecycle ==
    \A r \in FanoutReplicas :
        Attached(r) =>
            /\ InList(replica_connections, r)
            /\ NoSetInFlight =>
                  \A i \in (obs[r].attached + 1)..Len(applied) :
                      \E j \in 1..Len(Propagated(r)) :
                          Propagated(r)[j] = encode_resp_array(applied[i])

\* C29: a replica connection that its worker has taken out of the registry
\* and closed is not in the registry, also when the cleanup runs while a
\* fan-out rebuilds the registry.
C29_ClosedNotRegistered ==
    \A r \in FanoutReplicas :
        (pc[r] = "done" /\ sock[r].closed) => ~InList(replica_connections, r)

(***************************************************************************)
(* connect_to_master: the replication thread of a replica.  The primary at *)
(* the other end answers the handshake, sends FULLRESYNC and the snapshot, *)
(* then propagates commands.  A recv returns the bytes of some of the      *)
(* sends in flight, up to the size asked for, or (MaxSplits times) any     *)
(* non-empty prefix of them.                                               *)
(***************************************************************************)
sListeningPort == <<108, 105, 115, 116, 101, 110, 105, 110, 103, 45, 112, 111, 114, 116>>
sCapa == <<99, 97, 112, 97>>
sPsync2 == <<112, 115, 121, 110, 99, 50>>
\* str(replica_port), for --port 6380
port_str == <<54, 51, 56, 48>>
\* b"*1\r\n$4\r\nPING\r\n"
ping_command == encode_resp_array(<<sPING>>)
replconf_port_command == encode_resp_array(<<sREPLCONF, sListeningPort, port_str>>)
replconf_capa_command == encode_resp_array(<<sREPLCONF, sCapa, sPsync2>>)
\* b"*3\r\n$5\r\nPSYNC\r\n$1\r\n?\r\n$2\r\n-1\r\n"
psync_command == encode_resp_array(PsyncRequest)

Min(a, b) == IF a <= b THEN a ELSE b

\* handle_set(command, silent=True) on the keyspace store at time t: the
\* keyspace afterwards; ok = FALSE when int(command[4]) raises ValueError
handle_set_silent(cmd, store, t) ==
    IF Len(cmd) = 3
    THEN [ok |-> TRUE, store |-> Assign(store, cmd[2], StrEntry(cmd[3]))]
    ELSE IF Len(cmd) = 5 /\ Upper(cmd[4]) = sPX
    THEN IF IsInt(cmd[5])
         THEN [ok |-> TRUE,
               store |-> Assign(store, cmd[2], DictEntry(cmd[3], t + ToInt(cmd[5])))]
         ELSE [ok |-> FALSE, store |-> store]
    ELSE [ok |-> TRUE, store |-> store]

\* process_propagated_command(command, master_socket): the keyspace
\* afterwards and what was written to master_socket
process_propagated_command(cmd, store, t) ==
    IF cmd = <<>> THEN [ok |-> TRUE, store |-> store, sent |-> <<>>]
    ELSE IF Upper(cmd[1]) = sSET
    THEN LET r == handle_set_silent(cmd, store, t)
         IN  [ok |-> r.ok, store |-> r.store, sent |-> <<>>]
    ELSE IF Upper(cmd[1]) = sREPLCONF /\ Len(cmd) >= 3 /\ Upper(cmd[2]) = sGETACK
    THEN [ok |-> TRUE, store |-> store, sent |-> <<AckResponse>>]
    ELSE [ok |-> TRUE, store |-> store, sent |-> <<>>]

RECURSIVE ProcessCommands(_, _, _, _)
\* for command in commands: process_propagated_command(command, master_socket)
ProcessCommands(commands, store, t, sent) ==
    IF commands = <<>> THEN [ok |-> TRUE, store |-> store, sent |-> sent]
    ELSE LET r == process_propagated_command(Head(commands), store, t)
         IN  IF ~r.ok THEN [ok |-> FALSE, store |-> r.store, sent |-> sent]
             ELSE ProcessCommands(Tail(commands), r.store, t, sent \o r.sent)

MaxSplits == 1

RECURSIVE PrefixSums(_, _)
\* the numbers of bytes in flight that end with a whole send of the primary
PrefixSums(pending, base) ==
    IF pending = <<>> THEN {}
    ELSE {base + Head(pending)} \cup PrefixSums(Tail(pending), base + Head(pending))

\* what recv(limit) may return when the network delivers whole sends: some of
\* the sends in flight, cut at limit
WholeSizes(limit) ==
    {m \in PrefixSums(master_socket.pending, 0) : m <= limit}
        \cup (IF limit < Len(master_socket.wire) THEN {limit} ELSE {})

\* the sizes recv(limit) may return: the network may also deliver a proper
\* part of a send, at most MaxSplits times
RecvSizes(limit) ==
    WholeSizes(limit) \cup
        (IF master_socket.splits < MaxSplits
         THEN 1..Min(limit, Len(master_socket.wire)) ELSE {})

RECURSIVE AfterTake(_, _)
\* the sizes of the sends in flight after n bytes were received
AfterTake(pending, n) ==
    IF n = 0 \/ pending = <<>> THEN pending
    ELSE IF n >= Head(pending) THEN AfterTake(Tail(pending), n - Head(pending))
    ELSE <<Head(pending) - n>> \o Tail(pending)

\* master_socket after the primary wrote bytes to its end
Written(bytes) ==
    [master_socket EXCEPT !.wire = @ \o bytes, !.pending = Append(@, Len(bytes))]

\* master_socket after recv(limit) returned its first n bytes
Received(limit, n) ==
    [master_socket EXCEPT
        !.wire = Drop(@, n),
        !.pending = AfterTake(@, n),
        !.splits = IF n \in WholeSizes(limit) THEN @ ELSE @ + 1]

\* the replies of the primary to PING, REPLCONF listening-port, REPLCONF capa
HandshakeReplies == <<handle_ping, handle_replconf(<<>>), handle_replconf(<<>>)>>

\* the primary has read a handshake request and writes its reply
PrimaryReply ==
    /\ ~master_socket.peer_closed
    /\ primary.answered < Len(HandshakeReplies)
    /\ primary.answered < Len(master_socket.sent)
    /\ master_socket' = Written(HandshakeReplies[primary.answered + 1])
    /\ primary' = [primary EXCEPT !.answered = @ + 1]
    /\ UNCHANGED <<codecVars, serverVars, mpc, rdb_header_data, rdb_left, remaining_data,
                   hist>>

\* the primary has read PSYNC: handle_psync sends the FULLRESYNC line
PrimaryFullresync ==
    /\ ~master_socket.peer_closed
    /\ primary.answered = Len(HandshakeReplies)
    /\ primary.answered < Len(master_socket.sent)
    /\ master_socket' = Written(fullresync_response)
    /\ primary' = [primary EXCEPT !.answered = @ + 1]
    /\ UNCHANGED <<codecVars, serverVars, mpc, rdb_header_data, rdb_left, remaining_data,
                   hist>>

\* handle_psync sends the snapshot
PrimaryRdb ==
    /\ ~master_socket.peer_closed
    /\ primary.answered = Len(HandshakeReplies) + 1
    /\ master_socket' = Written(rdb_message)
    /\ primary' = [primary EXCEPT !.answered = @ + 1]
    /\ UNCHANGED <<codecVars, serverVars, mpc, rdb_header_data, rdb_left, remaining_data,
                   hist>>

PrimaryStreaming == primary.answered = Len(HandshakeReplies) + 2

\* the primary propagates a command: replica_conn.send(command_resp)
PrimaryPropagate(cmd) ==
    /\ PrimaryStreaming
    /\ primary.left > 0
    /\ ~master_socket.peer_closed
    /\ master_socket' = Written(encode_resp_array(cmd))
    /\ primary' = [primary EXCEPT !.left = @ - 1]
    /\ hist' = [hist EXCEPT !.stream = Append(@, cmd)]
    /\ UNCHANGED <<codecVars, serverVars, mpc, rdb_header_data, rdb_left, remaining_data>>

\* the primary closes the connection
PrimaryClose ==
    /\ PrimaryStreaming
    /\ ~master_socket.peer_closed
    /\ master_socket' = [master_socket EXCEPT !.peer_closed = TRUE]
    /\ UNCHANGED <<codecVars, serverVars, mpc, rdb_header_data, rdb_left, remaining_data,
                   primary, hist>>

\* master_socket.connect(...); master_socket.send(ping_command)
ConnectSendPing ==
    /\ mpc = "connect"
    /\ master_socket' = [master_socket EXCEPT !.sent = Append(@, ping_command)]
    /\ mpc' = "ping_reply"
    /\ UNCHANGED <<codecVars, serverVars, rdb_header_data, rdb_left, remaining_data,
                   primary, hist>>

\* the bytes the primary writes before the first propagated command
StreamStart ==
    Len(Concat(HandshakeReplies)) + Len(fullresync_response) + Len(rdb_message)

\* response = master_socket.recv(1024) after PING and after each REPLCONF:
\* the response is printed, the next command is sent
HandshakeRecv(n) ==
    /\ mpc \in {"ping_reply", "port_reply", "capa_reply"}
    /\ n \in RecvSizes(1024)
    /\ master_socket' = [Received(1024, n) EXCEPT
            !.sent = Append(@, IF mpc = "ping_reply" THEN replconf_port_command
                               ELSE IF mpc = "port_reply" THEN replconf_capa_command
                               ELSE psync_command)]
    /\ mpc' = IF mpc = "ping_reply" THEN "port_reply"
              ELSE IF mpc = "port_reply" THEN "capa_reply"
              ELSE "psync_reply"
    /\ hist' = [hist EXCEPT
            !.consumed = @ + n,
            !.clean = @ /\ n = Len(master_socket.wire)]
    /\ UNCHANGED <<codecVars, serverVars, rdb_header_data, rdb_left, remaining_data,
                   primary>>

\* response = master_socket.recv(1024) after PSYNC; rdb_header_data = b""
PsyncRecv(n) ==
    /\ mpc = "psync_reply"
    /\ n \in RecvSizes(1024)
    /\ master_socket' = Received(1024, n)
    /\ rdb_header_data' = <<>>
    /\ mpc' = "rdb_header"
    /\ hist' = [hist EXCEPT !.consumed = @ + n]
    /\ UNCHANGED <<codecVars, serverVars, rdb_left, remaining_data, primary>>

\* rdb_header_data[1:rdb_header_data.find(b"\r\n")]
HeaderLengthStr(h) ==
    IF FindCRLF(h) = 0 THEN Drop(PySliceTo(h, -1), 1)
    ELSE Drop(Take(h, FindCRLF(h) - 1), 1)

\* after the header loop: where the thread goes with the header h it read.
\* A header that is not a decimal length raises; the outer except clause
\* calls sys.exit(1), which ends the thread
AfterHeaderPc(h) ==
    IF ~StartsWith(h, DOLLAR) THEN "loop"
    ELSE IF ~BytesDecode(HeaderLengthStr(h)).ok \/ ~IsInt(HeaderLengthStr(h)) THEN "exit"
    ELSE IF ToInt(HeaderLengthStr(h)) > 0 THEN "rdb_data"
    ELSE "loop"

AfterHeaderLeft(h) ==
    IF AfterHeaderPc(h) = "rdb_data" THEN ToInt(HeaderLengthStr(h)) ELSE 0

\* one iteration of the header loop: chunk = master_socket.recv(1)
RdbHeaderRecv ==
    /\ mpc = "rdb_header"
    /\ master_socket.wire # <<>>
    /\ LET h == Append(rdb_header_data, master_socket.wire[1])
       IN  /\ rdb_header_data' = h
           /\ mpc' = IF FindCRLF(h) = 0 THEN "rdb_header" ELSE AfterHeaderPc(h)
           /\ rdb_left' = IF FindCRLF(h) = 0 THEN 0 ELSE AfterHeaderLeft(h)
    /\ master_socket' = Received(1, 1)
    /\ hist' = [hist EXCEPT !.consumed = @ + 1]
    /\ UNCHANGED <<codecVars, serverVars, remaining_data, primary>>

\* one iteration of the snapshot loop:
\* chunk = master_socket.recv(min(4096, rdb_length - len(rdb_data)))
RdbDataRecv(n) ==
    /\ mpc = "rdb_data"
    /\ n \in RecvSizes(Min(4096, rdb_left))
    /\ master_socket' = Received(Min(4096, rdb_left), n)
    /\ rdb_left' = rdb_left - n
    /\ mpc' = IF rdb_left - n > 0 THEN "rdb_data" ELSE "loop"
    /\ hist' = [hist EXCEPT !.consumed = @ + n]
    /\ UNCHANGED <<codecVars, serverVars, rdb_header_data, remaining_data, primary>>

\* one iteration of the propagation loop: data = master_socket.recv(4096);
\* remaining_data += data; the commands parsed from it are processed.  An
\* exception leaves the loop
LoopRecv(n) ==
    /\ mpc = "loop"
    /\ n \in RecvSizes(4096)
    /\ LET parsed == parse_multiple_resp_commands(remaining_data \o Take(master_socket.wire, n))
           done == ProcessCommands(parsed.commands, redis_store, now, <<>>)
       IN  IF ~parsed.ok
           THEN /\ remaining_data' = remaining_data \o Take(master_socket.wire, n)
                /\ master_socket' = Received(4096, n)
                /\ mpc' = "close"
                /\ UNCHANGED redis_store
           ELSE /\ remaining_data' = parsed.remaining_data
                /\ master_socket' = [Received(4096, n) EXCEPT !.sent = @ \o done.sent]
                /\ redis_store' = done.store
                /\ mpc' = IF done.ok THEN "loop" ELSE "close"
    /\ hist' = [hist EXCEPT !.consumed = @ + n]
    /\ UNCHANGED <<codecVars, role, replica_connections, now, pc, command, local, sock,
                   budget, applied, lastSet, obs, inbox, rdb_header_data, rdb_left, primary>>

\* a recv returns b"" after the primary closed: break.  The header loop goes
\* on with the header read so far, the snapshot loop with the propagation
\* loop, the propagation loop with master_socket.close()
MasterRecvEOF ==
    /\ mpc \in {"rdb_header", "rdb_data", "loop"}
    /\ master_socket.wire = <<>>
    /\ master_socket.peer_closed
    /\ mpc' = IF mpc = "rdb_header" THEN AfterHeaderPc(rdb_header_data)
              ELSE IF mpc = "rdb_data" THEN "loop"
              ELSE "close"
    /\ rdb_left' = IF mpc = "rdb_header" THEN AfterHeaderLeft(rdb_header_data) ELSE rdb_left
    /\ UNCHANGED <<codecVars, serverVars, master_socket, rdb_header_data, remaining_data,
                   primary, hist>>

\* master_socket.close()
MasterClose ==
    /\ mpc = "close"
    /\ master_socket' = [master_socket EXCEPT !.closed = TRUE]
    /\ mpc' = "done"
    /\ UNCHANGED <<codecVars, serverVars, rdb_header_data, rdb_left, remaining_data,
                   primary, hist>>

MaxStream == 2

GetackRequest == <<sREPLCONF, sGETACK, sStar>>

\* a value that holds a CR LF and the bytes of a request:
\* "x\r\n*3\r\n$8\r\nREPLCONF\r\n$6\r\nGETACK\r\n$1\r\n*"
vFramed == <<120, CR, LF>> \o PySliceTo(encode_resp_array(GetackRequest), -2)

\* what the primary propagates: SET k a, SET k b PX 1, SET k (a bad shape),
\* PING (not a write), REPLCONF GETACK *, SET k <vFramed>
StreamCommands ==
    { <<sSET, kK, vA>>,
      <<sSET, kK, vB, sPX, <<ZERO + 1>>>>,
      <<sSET, kK>>,
      <<sPING>>,
      GetackRequest,
      <<sSET, kK, vFramed>> }

ReplicaInit ==
    /\ cFrames = <<>>
    /\ cData = <<>>
    /\ cResult = NoResult
    /\ cPc = "idle"
    /\ role = "slave"
    /\ redis_store = <<>>
    /\ replica_connections = <<>>
    /\ now = 0
    /\ pc = [c \in Conn |-> "none"]
    /\ command = [c \in Conn |-> <<>>]
    /\ local = [c \in Conn |-> InitLocal]
    /\ sock = [c \in Conn |-> InitSock]
    /\ budget = [c \in Conn |-> 0]
    /\ applied = <<>>
    /\ lastSet = [k \in KeyUniverse |-> NoSet]
    /\ obs = [c \in Conn |-> NoObs]
    /\ inbox = [c \in Conn |-> InitInbox]
    /\ ReplInit("connect", MaxStream)

ReplicaNext ==
    \/ ConnectSendPing
    \/ PrimaryReply
    \/ PrimaryFullresync
    \/ PrimaryRdb
    \/ \E cmd \in StreamCommands : PrimaryPropagate(cmd)
    \/ PrimaryClose
    \/ \E n \in 1..Len(master_socket.wire) : HandshakeRecv(n)
    \/ \E n \in 1..Len(master_socket.wire) : PsyncRecv(n)
    \/ RdbHeaderRecv
    \/ \E n \in 1..Len(master_socket.wire) : RdbDataRecv(n)
    \/ \E n \in 1..Len(master_socket.wire) : LoopRecv(n)
    \/ MasterRecvEOF
    \/ MasterClose

SpecReplica == ReplicaInit /\ [][ReplicaNext]_vars

\* the offsets, in the bytes the primary wrote, at which the i-th propagated
\* command begins and ends
StreamBegin(i) == StreamStart + Len(EncodeFrames(SubSeq(hist.stream, 1, i - 1)))

StreamEnd(i) == StreamStart + Len(EncodeFrames(SubSeq(hist.stream, 1, i)))

IsGetack(cmd) == Len(cmd) >= 3 /\ Upper(cmd[1]) = sREPLCONF /\ Upper(cmd[2]) = sGETACK

\* a SET the primary accepts: SET k v, or SET k v PX <integer>
IsAcceptedSet(cmd) ==
    /\ Upper(cmd[1]) = sSET
    /\ \/ Len(cmd) = 3
       \/ Len(cmd) = 5 /\ Upper(cmd[4]) = sPX /\ IsInt(cmd[5])

\* what the replica wrote to the primary after the four handshake commands
Acks == Drop(master_socket.sent, 4)

\* the probes of which the replica has received the first byte / the last byte
GetacksBegun ==
    {i \in 1..Len(hist.stream) : IsGetack(hist.stream[i]) /\ StreamBegin(i) < hist.consumed}

GetacksEnded ==
    {i \in 1..Len(hist.stream) : IsGetack(hist.stream[i]) /\ StreamEnd(i) <= hist.consumed}

\* the replication thread is blocked in a recv on an open channel, after a
\* handshake in which each recv returned exactly one reply
ReplicaWaiting ==
    /\ mpc \in {"rdb_header", "rdb_data", "loop"}
    /\ master_socket.wire = <<>>
    /\ hist.clean
    /\ ~master_socket.peer_closed
    /\ ~master_socket.closed

\* C2: after PSYNC, FULLRESYNC and the snapshot, every SET k v the primary
\* propagates is applied to the replica's keyspace once the replica has read
\* its bytes (and no later SET of k has begun to arrive), however the bytes
\* were split or coalesced across the reads, while the channel is open.
C2_SetsApplied ==
    ReplicaWaiting =>
        \A i \in 1..Len(hist.stream) :
            ( /\ IsAcceptedSet(hist.stream[i])
              /\ StreamEnd(i) <= hist.consumed
              /\ \A j \in (i + 1)..Len(hist.stream) :
                    ~(Upper(hist.stream[j][1]) = sSET /\ StreamBegin(j) < hist.consumed) )
            => ( /\ Has(redis_store, hist.stream[i][2])
                 /\ Lookup(redis_store, hist.stream[i][2]).value = hist.stream[i][3] )

\* C7: on the connection to its primary the replica writes nothing for a
\* command other than REPLCONF GETACK: every write after the handshake is
\* the reply to a GETACK the primary sent and the replica has begun to read.
C7_SilentExceptGetack ==
    /\ \A i \in 1..Len(Acks) : Acks[i] = AckResponse
    /\ Len(Acks) <= Cardinality(GetacksBegun)

\* C8: every REPLCONF GETACK * of the stream gets exactly one reply,
\* REPLCONF ACK 0, whatever was applied before it: when the thread is back at
\* its recv, each probe read to its end has been answered, in order.
C8_GetackAnswered ==
    (ReplicaWaiting /\ mpc = "loop") =>
        /\ \A i \in 1..Len(Acks) : Acks[i] = AckResponse
        /\ Cardinality(GetacksEnded) <= Len(Acks)
        /\ Len(Acks) <= Cardinality(GetacksBegun)

(***************************************************************************)
(* A server in replica role and the connections it accepts: each peer      *)
(* sends what test_replconf_getack.py sends, in that order, waiting for    *)
(* the reply to each handshake request, and may go away at any time.       *)
(***************************************************************************)
InboundScript ==
    << <<sPING>>,
       <<sREPLCONF, sListeningPort, <<54, 51, 55, 57>>>>,    \* "6379"
       <<sREPLCONF, sCapa, sPsync2>>,
       PsyncRequest,
       GetackRequest >>

InboundConns == {"c1", "c2"}

\* the request the peer of c sends next
NextRequest(c) == InboundScript[Len(InboundScript) - budget[c] + 1]

InboundInit ==
    /\ ServerInit("slave", InboundConns, <<>>)
    /\ budget = [c \in Conn |-> IF c \in InboundConns THEN Len(InboundScript) ELSE 0]

InboundNext ==
    \E c \in InboundConns :
        \/ budget[c] > 0 /\ Recv(c, NextRequest(c))
        \/ budget[c] > 0 /\ Drain(c, NextRequest(c))
        \/ SendOk(c)
        \/ SendFail(c)
        \/ PsyncFullresync(c)
        \/ PsyncRdb(c)
        \/ PsyncSendFail(c)
        \/ PsyncAppend(c)
        \/ PeerClose(c)
        \/ RecvEOF(c)
        \/ DrainEOF(c)
        \/ FinallyClose(c)
        \/ CleanupIn(c)
        \/ CleanupClose(c)

SpecInbound == InboundInit /\ [][InboundNext]_vars

\* the handshake replies and the snapshot, as the peer of the test reads them
InboundHandshakeSent ==
    <<handle_ping, handle_replconf(<<>>), handle_replconf(<<>>), fullresync_response,
      rdb_message>>

\* C9: on a connection accepted by a server in replica role, after PING,
\* REPLCONF listening-port, REPLCONF capa psync2 and PSYNC ? -1 were answered,
\* a REPLCONF GETACK * that the server has read is answered with exactly
\* REPLCONF ACK 0 by the time its thread waits for more bytes.
C9_InboundGetack ==
    \A c \in InboundConns :
        (pc[c] = "drain" /\ command[c] = GetackRequest /\ ~sock[c].peer_closed) =>
            sock[c].sent = Append(InboundHandshakeSent, AckResponse)

(***************************************************************************)
(* A client connection as a stream of bytes: the peer sends requests one   *)
(* after another without waiting, and a recv of handle_connection returns  *)
(* the bytes of some of the sends in flight, up to the size asked for, or  *)
(* (MaxSplits times) any non-empty prefix of them.                         *)
(***************************************************************************)
\* what recv(limit) on the socket record s may return when the network
\* delivers whole sends
SockWholeSizes(s, limit) ==
    {m \in PrefixSums(s.pending, 0) : m <= limit}
        \cup (IF limit < Len(s.wire) THEN {limit} ELSE {})

SockRecvSizes(s, limit) ==
    SockWholeSizes(s, limit) \cup
        (IF s.splits < MaxSplits THEN 1..Min(limit, Len(s.wire)) ELSE {})

\* the peer of c writes the encoding of request to the connection
ClientSend(c, request) ==
    /\ pc[c] \notin {"none", "done"}
    /\ budget[c] > 0
    /\ ~sock[c].peer_closed
    /\ budget' = [budget EXCEPT ![c] = @ - 1]
    /\ inbox' = [inbox EXCEPT
            ![c].wire = @ \o encode_resp_array(request),
            ![c].pending = Append(@, Len(encode_resp_array(request))),
            ![c].asked = Append(@, request)]
    /\ UNCHANGED <<codecVars, replVars, role, redis_store, replica_connections, now, pc,
                   command, local, sock, applied, lastSet, obs>>

\* data = connection.recv(1024) returns the first n bytes in flight;
\* command = parse_resp(data); the dispatch on command[0].upper()
RecvBytes(c, n) ==
    /\ pc[c] = "recv"
    /\ n \in SockRecvSizes(inbox[c], 1024)
    /\ inbox' = [inbox EXCEPT
            ![c].wire = Drop(@, n),
            ![c].pending = AfterTake(@, n),
            ![c].splits = IF n \in SockWholeSizes(inbox[c], 1024) THEN @ ELSE @ + 1]
    /\ LET parsed == parse_resp(Take(inbox[c].wire, n))
       IN  IF parsed.kind # "ok" \/ parsed.elements = <<>>
           THEN /\ Raise(c)
                /\ UNCHANGED <<command, local, obs>>
           ELSE /\ command' = [command EXCEPT ![c] = parsed.elements]
                /\ pc' = [pc EXCEPT ![c] = DispatchPc(parsed.elements)]
                /\ SetLocal(c, [local[c] EXCEPT
                                   !.response = DispatchResponse(parsed.elements, role)])
                /\ obs' = [obs EXCEPT ![c] = ObsStart(parsed.elements)]
    /\ UNCHANGED <<codecVars, replVars, role, redis_store, replica_connections, now, sock,
                   budget, applied, lastSet>>

MaxPipeline == 2

\* PING, ECHO a, ECHO b
PipelineRequests == {<<sPING>>, <<sECHO, vA>>, <<sECHO, vB>>}

PipelineConns == {"c1"}

PipelineInit ==
    /\ ServerInit("master", PipelineConns, <<>>)
    /\ budget = [c \in Conn |-> IF c \in PipelineConns THEN MaxPipeline ELSE 0]

PipelineNext ==
    \E c \in PipelineConns :
        \/ \E request \in PipelineRequests : ClientSend(c, request)
        \/ \E n \in 1..Len(inbox[c].wire) : RecvBytes(c, n)
        \/ SendOk(c)
        \/ FinallyClose(c)

SpecPipeline == PipelineInit /\ [][PipelineNext]_vars

\* the replies to the requests the peer of c has sent, in request order
PipelineReplies(c) ==
    [i \in 1..Len(inbox[c].asked) |-> DispatchResponse(inbox[c].asked[i], role)]

\* C12: for any sequence of complete request frames arriving on a connection,
\* however the bytes are grouped into reads, the server executes every
\* request and writes exactly one reply to each, in request order: the
\* replies written are always the first replies due, the connection is not
\* given up, and all replies are written when the thread waits for more.
C12_Pipelined ==
    \A c \in PipelineConns :
        /\ pc[c] \notin {"finally", "done"}
        /\ Len(sock[c].sent) <= Len(inbox[c].asked)
        /\ sock[c].sent = SubSeq(PipelineReplies(c), 1, Len(sock[c].sent))
        /\ (pc[c] = "recv" /\ inbox[c].wire = <<>>) => sock[c].sent = PipelineReplies(c)

(***************************************************************************)
(* Requests the server does not accept: a client connection that sends SET *)
(* requests of a wrong shape, SET requests with a bad PX argument and      *)
(* unknown commands among good ones, and a connection that issues PSYNC    *)
(* and sends requests afterwards.                                          *)
(***************************************************************************)
kJ == <<106>>
vC == <<99>>

\* SET; SET j; set j a PX; SET j a EX 1; SET j a PX 1 a
BadShapeSets ==
    { <<sSET>>,
      <<sSET, kJ>>,
      <<Lower(sSET), kJ, vA, sPX>>,
      <<sSET, kJ, vA, <<69, 88>>, <<ZERO + 1>>>>,
      <<sSET, kJ, vA, sPX, <<ZERO + 1>>, vA>> }

\* SET j b PX x; SET j b px -1
BadPxSets ==
    { <<sSET, kJ, vB, sPX, <<120>>>>,
      <<sSET, kJ, vB, Lower(sPX), <<MINUS, ZERO + 1>>>> }

\* FOO; del k; the empty name
UnknownRequests ==
    { <<<<70, 79, 79>>>>,
      <<<<100, 101, 108>>, kK>>,
      <<<<>>>> }

\* what a connection sends after its PSYNC: SET k c, PING
DrainRequests == {<<sSET, kK, vC>>, <<sPING>>}

ReqClients == {"c1"}
ReqReplicas == {"r1"}

\* ECHO, get, KEYS
NoArgRequests == {<<sECHO>>, <<Lower(sGET)>>, <<sKEYS>>}

ClientRequests ==
    {<<sSET, kK, vA>>} \cup BadShapeSets \cup BadPxSets \cup UnknownRequests
        \cup NoArgRequests

MaxErrRequests == 2

RequestsInit ==
    /\ ServerInit("master", ReqClients \cup ReqReplicas, <<>>)
    /\ budget = [c \in Conn |-> IF c \in ReqClients \cup ReqReplicas THEN MaxErrRequests ELSE 0]

RequestsNext ==
    \/ \E c \in ReqClients : \E request \in ClientRequests : Recv(c, request)
    \/ \E c \in ReqReplicas : Recv(c, PsyncRequest)
    \/ \E c \in ReqReplicas : \E request \in DrainRequests : Drain(c, request)
    \/ \E c \in ReqClients \cup ReqReplicas :
        \/ HandleSet(c)
        \/ PropCheck(c)
        \/ PropSendOk(c)
        \/ PropLoopEnd(c)
        \/ PropAssign(c)
        \/ SendOk(c)
        \/ PsyncFullresync(c)
        \/ PsyncRdb(c)
        \/ PsyncAppend(c)
        \/ FinallyClose(c)

SpecRequests == RequestsInit /\ [][RequestsNext]_vars

\* the thread of c takes the step
Steps(c) == pc'[c] # pc[c]

\* the step leaves the keyspace and the registry alone and writes to no
\* connection but c
Untouched(c) ==
    /\ UNCHANGED <<redis_store, replica_connections, applied>>
    /\ \A d \in Conn \ {c} : sock'[d] = sock[d]

\* the step writes the reply to c and goes back to recv, the connection open
Answers(c, reply) ==
    /\ pc'[c] = "recv"
    /\ sock'[c] = [sock[c] EXCEPT !.sent = Append(@, reply)]
    /\ ~sock'[c].closed

\* the request is on its way to the reply, and to no other end
AnsweredWith(c, reply) ==
    /\ pc[c] \in {"set", "send"}
    /\ pc[c] = "send" => local[c].response = reply
    /\ ~sock[c].closed

\* C14: a SET request whose shape is neither SET k v nor SET k v PX ms is
\* answered with the arity error, leaves the keyspace unchanged, sends
\* nothing to any replica, and leaves the connection open for more requests.
C14_BadShapeSet ==
    [][\A c \in ReqClients :
          /\ command'[c] \in BadShapeSets => AnsweredWith(c, RespSetArity)'
          /\ (command[c] \in BadShapeSets /\ Steps(c)) =>
                /\ Untouched(c)
                /\ pc[c] = "set" => sock'[c] = sock[c]
                /\ pc[c] = "send" => Answers(c, RespSetArity)]_vars

\* a bad SET was answered with the error and the next request was served,
\* with a replica attached
C14_Witness ==
    \E c \in ReqClients :
        /\ Len(sock[c].sent) = 2
        /\ sock[c].sent[1] = RespSetArity
        /\ sock[c].sent[2] = RespOk
        /\ InList(replica_connections, "r1")
        /\ Len(sock["r1"].sent) = 3

\* C15: SET k v PX ms with ms negative or not a decimal integer is answered
\* with the SET arity error, installs nothing (the requests carry the value
\* b, which no other request does), propagates nothing, and the connection
\* stays open.
C15_BadPx ==
    /\ \A c \in ReqClients :
          command[c] \in BadPxSets => AnsweredWith(c, RespSetArity)
    /\ \A i \in 1..Len(redis_store) : redis_store[i].entry.value # vB
    /\ \A i \in 1..Len(applied) : applied[i] \notin BadPxSets

\* C16: a request whose command name is outside the enumerated set is
\* answered with ERR unknown command; keyspace and registry are unchanged
\* and the connection stays open and serves later requests.
C16_UnknownCommand ==
    [][\A c \in ReqClients :
          /\ command'[c] \in UnknownRequests =>
                /\ AnsweredWith(c, RespUnknown)'
                /\ pc'[c] = "send"
          /\ (command'[c] \in UnknownRequests /\ Steps(c)) =>
                /\ Untouched(c)
                /\ sock'[c] = sock[c]
          /\ (command[c] \in UnknownRequests /\ Steps(c)) =>
                /\ Untouched(c)
                /\ Answers(c, RespUnknown)]_vars

\* an unknown command was answered with the error and the next request was
\* served
C16_Witness ==
    \E c \in ReqClients :
        /\ Len(sock[c].sent) = 2
        /\ sock[c].sent[1] = RespUnknown
        /\ sock[c].sent[2] = RespOk
        /\ Has(redis_store, kK)

C30_MissingArgument ==
    [][\A c \in ReqClients :
          /\ command'[c] \in NoArgRequests => pc'[c] \in {"finally", "done"}
          /\ (command'[c] \in NoArgRequests /\ command[c] = <<>>) =>
                /\ Untouched(c)
                /\ sock'[c] = sock[c]
          /\ (command[c] \in NoArgRequests /\ Steps(c)) =>
                /\ Untouched(c)
                /\ pc'[c] = "done"
                /\ sock'[c] = [sock[c] EXCEPT !.closed = TRUE]]_vars

\* a request without its argument ended the connection after an earlier SET
\* was answered and propagated
C30_Witness ==
    \E c \in ReqClients :
        /\ pc[c] = "done"
        /\ command[c] \in NoArgRequests
        /\ sock[c].closed
        /\ sock[c].sent = <<RespOk>>
        /\ Len(sock["r1"].sent) = 3

(***************************************************************************)
(* The handshake of connect_to_master against a peer that may refuse the   *)
(* connection, answer a step with an error, or close the connection before *)
(* the handshake is over, while the accept loop of main runs.              *)
(***************************************************************************)
HandshakeClients == {"c1"}

ReplyStates == {"ping_reply", "port_reply", "capa_reply"}

\* master_socket.connect raises: except Exception, sys.exit(1) in the
\* replication thread
ConnectFail ==
    /\ mpc = "connect"
    /\ mpc' = "exit"
    /\ UNCHANGED <<codecVars, serverVars, master_socket, rdb_header_data, rdb_left,
                   remaining_data, primary, hist>>

\* the peer answers a handshake request with an error instead of the reply
PrimaryReplyUnexpected ==
    /\ ~master_socket.peer_closed
    /\ primary.answered < Len(HandshakeReplies)
    /\ primary.answered < Len(master_socket.sent)
    /\ master_socket' = Written(RespUnknown)
    /\ primary' = [primary EXCEPT !.answered = @ + 1]
    /\ UNCHANGED <<codecVars, serverVars, mpc, rdb_header_data, rdb_left, remaining_data,
                   hist>>

\* the peer closes the connection before the handshake is over
PrimaryCloseEarly ==
    /\ ~PrimaryStreaming
    /\ ~master_socket.peer_closed
    /\ master_socket.sent # <<>>
    /\ master_socket' = [master_socket EXCEPT !.peer_closed = TRUE]
    /\ UNCHANGED <<codecVars, serverVars, mpc, rdb_header_data, rdb_left, remaining_data,
                   primary, hist>>

\* response = master_socket.recv(1024) returns b"" after the peer closed:
\* the response is printed, the next command is sent
HandshakeRecvEOF ==
    /\ mpc \in ReplyStates
    /\ master_socket.wire = <<>>
    /\ master_socket.peer_closed
    /\ master_socket' = [master_socket EXCEPT
            !.sent = Append(@, IF mpc = "ping_reply" THEN replconf_port_command
                               ELSE IF mpc = "port_reply" THEN replconf_capa_command
                               ELSE psync_command)]
    /\ mpc' = IF mpc = "ping_reply" THEN "port_reply"
              ELSE IF mpc = "port_reply" THEN "capa_reply"
              ELSE "psync_reply"
    /\ UNCHANGED <<codecVars, serverVars, rdb_header_data, rdb_left, remaining_data,
                   primary, hist>>

\* master_socket.recv(1024) raises ConnectionResetError after the peer
\* closed: except Exception, sys.exit(1) in the replication thread
HandshakeRecvReset ==
    /\ mpc \in ReplyStates \cup {"psync_reply"}
    /\ master_socket.wire = <<>>
    /\ master_socket.peer_closed
    /\ mpc' = "exit"
    /\ UNCHANGED <<codecVars, serverVars, master_socket, rdb_header_data, rdb_left,
                   remaining_data, primary, hist>>

\* response = master_socket.recv(1024) after PSYNC returns b""
PsyncRecvEOF ==
    /\ mpc = "psync_reply"
    /\ master_socket.wire = <<>>
    /\ master_socket.peer_closed
    /\ rdb_header_data' = <<>>
    /\ mpc' = "rdb_header"
    /\ UNCHANGED <<codecVars, serverVars, master_socket, rdb_left, remaining_data,
                   primary, hist>>

\* main: connection, _ = server_socket.accept(); a handle_connection thread
\* is started for it
Accept(c) ==
    /\ pc[c] = "none"
    /\ budget[c] > 0
    /\ pc' = [pc EXCEPT ![c] = "recv"]
    /\ UNCHANGED <<codecVars, replVars, inbox, role, redis_store, replica_connections, now,
                   command, local, sock, budget, applied, lastSet, obs>>

HandshakeInit ==
    /\ cFrames = <<>>
    /\ cData = <<>>
    /\ cResult = NoResult
    /\ cPc = "idle"
    /\ role = "slave"
    /\ redis_store = <<>>
    /\ replica_connections = <<>>
    /\ now = 0
    /\ pc = [c \in Conn |-> "none"]
    /\ command = [c \in Conn |-> <<>>]
    /\ local = [c \in Conn |-> InitLocal]
    /\ sock = [c \in Conn |-> InitSock]
    /\ budget = [c \in Conn |-> IF c \in HandshakeClients THEN 1 ELSE 0]
    /\ applied = <<>>
    /\ lastSet = [k \in KeyUniverse |-> NoSet]
    /\ obs = [c \in Conn |-> NoObs]
    /\ inbox = [c \in Conn |-> InitInbox]
    /\ ReplInit("connect", 1)

HandshakeNext ==
    \/ ConnectSendPing
    \/ ConnectFail
    \/ PrimaryReply
    \/ PrimaryReplyUnexpected
    \/ PrimaryFullresync
    \/ PrimaryRdb
    \/ PrimaryPropagate(<<sSET, kK, vA>>)
    \/ PrimaryClose
    \/ PrimaryCloseEarly
    \/ \E n \in 1..Len(master_socket.wire) : HandshakeRecv(n)
    \/ HandshakeRecvEOF
    \/ HandshakeRecvReset
    \/ \E n \in 1..Len(master_socket.wire) : PsyncRecv(n)
    \/ PsyncRecvEOF
    \/ RdbHeaderRecv
    \/ \E n \in 1..Len(master_socket.wire) : RdbDataRecv(n)
    \/ \E n \in 1..Len(master_socket.wire) : LoopRecv(n)
    \/ MasterRecvEOF
    \/ MasterClose
    \/ \E c \in HandshakeClients : Accept(c)
    \/ \E c \in HandshakeClients : Recv(c, <<sPING>>)
    \/ \E c \in HandshakeClients : SendOk(c)

SpecHandshake == HandshakeInit /\ [][HandshakeNext]_vars

\* the bytes the recv of this step returned
ReplyRead == Take(master_socket.wire, hist'.consumed - hist.consumed)

\* the reply the handshake step expects
ExpectedReply ==
    IF mpc = "ping_reply" THEN HandshakeReplies[1]
    ELSE IF mpc = "port_reply" THEN HandshakeReplies[2]
    ELSE HandshakeReplies[3]

\* C17: if the replica cannot connect to the primary, or reads an unexpected
\* reply at a handshake step, the replica process exits: the replication
\* thread does not go on to the propagation loop, no connection is accepted
\* and no request is served afterwards.
C17_HandshakeFatal ==
    [][/\ (mpc \in ReplyStates /\ mpc' # mpc /\ ReplyRead # ExpectedReply) => mpc' = "exit"
       /\ mpc = "exit" => UNCHANGED <<mpc, pc, sock, redis_store>>]_vars

HandshakeCommands ==
    <<ping_command, replconf_port_command, replconf_capa_command, psync_command>>

\* C19: the replica sends PING, REPLCONF listening-port, REPLCONF capa and
\* PSYNC in this order; each of the last three is sent only when the primary
\* has written the reply to the step before and the replica has read all of
\* it; the keyspace is not changed by a propagated command before PSYNC was
\* sent.
C19_HandshakeOrder ==
    [][LET sent == master_socket.sent
           k == Min(Len(master_socket'.sent), Len(HandshakeCommands))
       IN  /\ SubSeq(master_socket'.sent, 1, k) = SubSeq(HandshakeCommands, 1, k)
           /\ (Len(master_socket'.sent) > Len(sent) /\ Len(sent) \in 1..3) =>
                 /\ primary.answered >= Len(sent)
                 /\ master_socket'.wire = <<>>
           /\ redis_store' # redis_store => Len(sent) >= Len(HandshakeCommands)]_vars

(***************************************************************************)
(* A server in replica role: its replication thread applies the stream of  *)
(* the primary while one connection sends SET and another sends PSYNC.     *)
(***************************************************************************)
ReplicaRoleClients == {"c1"}
ReplicaRoleSinks == {"r1"}

\* the primary propagates SET k a; the client sends SET j b
ReplicaRoleRequests(c) ==
    IF c \in ReplicaRoleSinks THEN {PsyncRequest} ELSE {<<sSET, kJ, vB>>}

ReplicaRoleInit ==
    /\ cFrames = <<>>
    /\ cData = <<>>
    /\ cResult = NoResult
    /\ cPc = "idle"
    /\ role = "slave"
    /\ redis_store = <<>>
    /\ replica_connections = <<>>
    /\ now = 0
    /\ pc = [c \in Conn |->
               IF c \in ReplicaRoleClients \cup ReplicaRoleSinks THEN "recv" ELSE "none"]
    /\ command = [c \in Conn |-> <<>>]
    /\ local = [c \in Conn |-> InitLocal]
    /\ sock = [c \in Conn |-> InitSock]
    /\ budget = [c \in Conn |->
                   IF c \in ReplicaRoleClients \cup ReplicaRoleSinks THEN 1 ELSE 0]
    /\ applied = <<>>
    /\ lastSet = [k \in KeyUniverse |-> NoSet]
    /\ obs = [c \in Conn |-> NoObs]
    /\ inbox = [c \in Conn |-> InitInbox]
    /\ ReplInit("connect", 1)

ReplicaRoleNext ==
    \/ ConnectSendPing
    \/ PrimaryReply
    \/ PrimaryFullresync
    \/ PrimaryRdb
    \/ PrimaryPropagate(<<sSET, kK, vA>>)
    \/ \E n \in 1..Len(master_socket.wire) : HandshakeRecv(n)
    \/ \E n \in 1..Len(master_socket.wire) : PsyncRecv(n)
    \/ RdbHeaderRecv
    \/ \E n \in 1..Len(master_socket.wire) : RdbDataRecv(n)
    \/ \E n \in 1..Len(master_socket.wire) : LoopRecv(n)
    \/ \E c \in ReplicaRoleClients \cup ReplicaRoleSinks :
        \/ \E request \in ReplicaRoleRequests(c) : Recv(c, request)
        \/ HandleSet(c)
        \/ SendOk(c)
        \/ PsyncFullresync(c)
        \/ PsyncRdb(c)
        \/ PsyncAppend(c)

SpecReplicaRole == ReplicaRoleInit /\ [][ReplicaRoleNext]_vars

\* the worker is inside propagate_command_to_replicas
Propagating(c) == pc[c] \in {"prop_check", "prop_send", "prop_assign"}

\* C25: on a server in replica role nothing is propagated: a SET applied
\* from the replication stream and a SET accepted from a client change the
\* keyspace, but no worker enters the fan-out, nothing is written to a
\* connection except its own replies, the replication thread writes only
\* the handshake to the primary, and the registry stays empty also after an
\* inbound PSYNC.
C25_NoPropagationOnReplica ==
    /\ replica_connections = <<>>
    /\ \A c \in Conn : ~Propagating(c)
    /\ \A c \in ReplicaRoleClients : \A i \in 1..Len(sock[c].sent) : sock[c].sent[i] = RespOk
    /\ \A c \in ReplicaRoleSinks :
          sock[c].sent = SubSeq(<<fullresync_response, rdb_message>>, 1, Len(sock[c].sent))
    /\ Len(master_socket.sent) <= Len(HandshakeCommands)
    /\ master_socket.sent = SubSeq(HandshakeCommands, 1, Len(master_socket.sent))

\* the SET of the stream and the SET of the client are both in the keyspace
\* and the PSYNC of the inbound connection is over
C25_Witness ==
    /\ Has(redis_store, kK)
    /\ Lookup(redis_store, kK).value = vA
    /\ Has(redis_store, kJ)
    /\ Lookup(redis_store, kJ).value = vB
    /\ sock["c1"].sent = <<RespOk>>
    /\ pc["r1"] = "drain"

(***************************************************************************)
(* The life of a connection: a client connection whose requests arrive in  *)
(* any grouping and whose peer may go away at any time, and a connection   *)
(* that issues PSYNC, while the fan-out of the client's SET runs.          *)
(***************************************************************************)
LifecycleClients == {"c1"}
LifecycleSinks == {"r1"}

\* SET k a, PING, ECHO without its argument
LifecycleRequests == {<<sSET, kK, vA>>, <<sPING>>, <<sECHO>>}

LifecycleInit ==
    /\ ServerInit("master", LifecycleClients \cup LifecycleSinks, <<>>)
    /\ budget = [c \in Conn |->
                   IF c \in LifecycleClients THEN MaxPipeline
                   ELSE IF c \in LifecycleSinks THEN 1 ELSE 0]

LifecycleNext ==
    \/ \E c \in LifecycleClients :
        \/ \E request \in LifecycleRequests : ClientSend(c, request)
        \/ \E n \in 1..Len(inbox[c].wire) : RecvBytes(c, n)
        \/ HandleSet(c)
        \/ PropCheck(c)
        \/ PropSendOk(c)
        \/ PropSendFail(c)
        \/ PropLoopEnd(c)
        \/ PropAssign(c)
        \/ SendOk(c)
        \/ SendFail(c)
        \/ RecvEOF(c)
    \/ \E c \in LifecycleSinks :
        \/ Recv(c, PsyncRequest)
        \/ PsyncFullresync(c)
        \/ PsyncRdb(c)
        \/ PsyncSendFail(c)
        \/ PsyncAppend(c)
        \/ DrainEOF(c)
        \/ CleanupIn(c)
        \/ CleanupRemove(c)
        \/ CleanupClose(c)
    \/ \E c \in LifecycleClients \cup LifecycleSinks :
        \/ PeerClose(c)
        \/ FinallyClose(c)

SpecLifecycle == LifecycleInit /\ [][LifecycleNext]_vars

\* the worker of c has ended
Exited(c) == pc[c] \in {"done", "dead"}

\* the step closes the connection c
Closes(c) == sock'[c].closed /\ ~sock[c].closed

\* C23: a connection that was not promoted to a replica-propagation sink is
\* closed when its worker has ended, whatever ended it (EOF of the peer, a
\* request that cannot be parsed, an exception in a handler or in a send); a
\* promoted connection is closed by its worker only when it is no longer in
\* the registry or the peer has closed it; no connection is closed by
\* another worker.
C23_ClosedOnExit ==
    [][\A c \in LifecycleClients \cup LifecycleSinks :
          /\ (Exited(c)' /\ ~local'[c].is_replica_connection) => sock'[c].closed
          /\ (Closes(c) /\ local[c].is_replica_connection) =>
                ~(InList(replica_connections, c) /\ ~sock[c].peer_closed)
          /\ Closes(c) => Steps(c)]_vars

\* the client connection was closed after a handler failed on it, with an
\* earlier SET answered, while the promoted connection is registered and open
C23_Witness ==
    /\ pc["c1"] = "done"
    /\ sock["c1"].closed
    /\ ~sock["c1"].peer_closed
    /\ sock["c1"].sent = <<RespOk>>
    /\ Attached("r1")
    /\ InList(replica_connections, "r1")
    /\ ~sock["r1"].closed

(***************************************************************************)
(* Best-effort delivery: a client sends SETs to a primary with two         *)
(* registered replica connections, whose peers may go away or stop         *)
(* reading.                                                                *)
(***************************************************************************)
BestEffortClients == {"c1"}
BestEffortSinks == {"r1", "r2"}

\* both connections have completed PSYNC before the first SET
BestEffortInit ==
    /\ cFrames = <<>>
    /\ cData = <<>>
    /\ cResult = NoResult
    /\ cPc = "idle"
    /\ role = "master"
    /\ redis_store = <<>>
    /\ replica_connections = <<"r1", "r2">>
    /\ now = 0
    /\ pc = [c \in Conn |-> IF c \in BestEffortClients THEN "recv"
                            ELSE IF c \in BestEffortSinks THEN "drain" ELSE "none"]
    /\ command = [c \in Conn |-> IF c \in BestEffortSinks THEN PsyncRequest ELSE <<>>]
    /\ local = [c \in Conn |->
                  IF c \in BestEffortSinks
                  THEN [InitLocal EXCEPT !.is_replica_connection = TRUE]
                  ELSE InitLocal]
    /\ sock = [c \in Conn |->
                 IF c \in BestEffortSinks
                 THEN [InitSock EXCEPT !.sent = <<fullresync_response, rdb_message>>]
                 ELSE InitSock]
    /\ budget = [c \in Conn |-> IF c \in BestEffortClients THEN MaxRequests ELSE 0]
    /\ applied = <<>>
    /\ lastSet = [k \in KeyUniverse |-> NoSet]
    /\ obs = [c \in Conn |->
                IF c \in BestEffortSinks THEN [NoObs EXCEPT !.attached = 0] ELSE NoObs]
    /\ inbox = [c \in Conn |-> InitInbox]
    /\ ReplInit("none", 0)

BestEffortNext ==
    \/ \E c \in BestEffortClients :
        \/ \E request \in {<<sSET, kK, vA>>, <<sSET, kK, vB>>} : Recv(c, request)
        \/ HandleSet(c)
        \/ PropCheck(c)
        \/ PropSendOk(c)
        \/ PropSendFail(c)
        \/ PropSendTimeout(c)
        \/ PropLoopEnd(c)
        \/ PropAssign(c)
        \/ SendOk(c)
    \/ \E c \in BestEffortSinks :
        \/ PeerClose(c)
        \/ DrainEOF(c)
        \/ CleanupIn(c)
        \/ CleanupRemove(c)
        \/ CleanupClose(c)

SpecBestEffort == BestEffortInit /\ [][BestEffortNext]_vars

\* the worker of r will take no further step: it has ended normally, or it
\* waits in the inner loop for a peer that has not closed
Settled(r) == pc[r] = "done" \/ (pc[r] = "drain" /\ ~sock[r].peer_closed)

\* C22: fan-out is best-effort: a registry entry whose write failed is out
\* of the registry and its connection is closed, once the fan-out is over
\* and its worker has nothing more to do; the entries that stay have
\* received every command; the client that issued the SET gets OK.
C22_BestEffort ==
    /\ \A c \in BestEffortClients : Replying(c) => local[c].response = RespOk
    /\ NoSetInFlight =>
          \A r \in BestEffortSinks :
              /\ InList(replica_connections, r) =>
                    Propagated(r) = [i \in 1..Len(applied) |-> encode_resp_array(applied[i])]
              /\ (~InList(replica_connections, r) /\ Settled(r)) => sock[r].closed

(***************************************************************************)
(* The RDB loader: size encoding.  The file object f is the sequence of    *)
(* bytes not yet read; a read function returns its value and the bytes     *)
(* left, or fails (ord(b"") and struct.unpack on a short read raise).      *)
(* Inputs keep every decoded integer below 2^31.                           *)
(***************************************************************************)
ReadFail == [ok |-> FALSE, value |-> 0, rest |-> <<>>]

ReadOk(v, rest) == [ok |-> TRUE, value |-> v, rest |-> rest]

RECURSIVE UnpackLE(_)
\* struct.unpack('B' | '<H' | '<I' | '<Q', bytes)[0]
UnpackLE(bs) == IF bs = <<>> THEN 0 ELSE bs[1] + 256 * UnpackLE(Tail(bs))

RECURSIVE UnpackBE(_)
\* struct.unpack('>I', bytes)[0]
UnpackBE(bs) == IF bs = <<>> THEN 0 ELSE bs[Len(bs)] + 256 * UnpackBE(Take(bs, Len(bs) - 1))

\* struct.unpack(fmt, f.read(n))[0] with a little-endian format of n bytes
ReadLE(f, n) == IF Len(f) < n THEN ReadFail ELSE ReadOk(UnpackLE(Take(f, n)), Drop(f, n))

\* byte & 0xC0, as the number of the top two bits
TopBits(byte) == byte \div 64

\* byte & 0x3F
LowBits(byte) == byte % 64

\* the special integer encodings, after the length byte was consumed
ReadSpecial(encoding_type, f) ==
    IF encoding_type = 0 THEN ReadLE(f, 1)
    ELSE IF encoding_type = 1 THEN ReadLE(f, 2)
    ELSE IF encoding_type = 2 THEN ReadLE(f, 4)
    ELSE ReadFail

read_size_encoded(f) ==
    IF f = <<>> THEN ReadFail
    ELSE LET byte == f[1]
             rest == Tail(f)
         IN  IF TopBits(byte) = 0 THEN ReadOk(LowBits(byte), rest)
             ELSE IF TopBits(byte) = 1
                  THEN IF rest = <<>> THEN ReadFail
                       ELSE ReadOk(LowBits(byte) * 256 + rest[1], Tail(rest))
             ELSE IF TopBits(byte) = 2
                  THEN IF Len(rest) < 4 THEN ReadFail
                       ELSE ReadOk(UnpackBE(Take(rest, 4)), Drop(rest, 4))
             ELSE ReadSpecial(LowBits(byte), rest)

\* first bytes: the ends of the four ranges of the top two bits
SizeFirstBytes == {0, 1, 63, 64, 65, 127, 128, 129, 191, 192, 193, 194, 195, 255}

\* the bytes that follow
SizeNextBytes == {0, 1, 127}

MaxSizeBytes == 4

SizeInit ==
    /\ cFrames = <<>>
    /\ cData \in {<<>>} \cup {<<b>> \o tail : b \in SizeFirstBytes,
                                             tail \in SeqsUpTo(SizeNextBytes, MaxSizeBytes)}
    /\ cResult = ReadFail
    /\ cPc = "start"
    /\ role = "master"
    /\ redis_store = <<>>
    /\ replica_connections = <<>>
    /\ now = 0
    /\ pc = [c \in Conn |-> "none"]
    /\ command = [c \in Conn |-> <<>>]
    /\ local = [c \in Conn |-> InitLocal]
    /\ sock = [c \in Conn |-> InitSock]
    /\ budget = [c \in Conn |-> 0]
    /\ applied = <<>>
    /\ lastSet = [k \in KeyUniverse |-> NoSet]
    /\ obs = [c \in Conn |-> NoObs]
    /\ inbox = [c \in Conn |-> InitInbox]
    /\ ReplInit("none", 0)

\* load_rdb_file, opcode 0xFE: db_index = read_size_encoded(f)
SizeRead ==
    /\ cPc = "start"
    /\ cResult' = read_size_encoded(cData)
    /\ cPc' = "size_read"
    /\ UNCHANGED <<cFrames, cData, serverVars, replVars>>

SizeNext == SizeRead

SpecSize == SizeInit /\ [][SizeNext]_vars

\* C26: a size whose first byte b has top bits 00 is b & 0x3F; top bits 01,
\* ((b & 0x3F) << 8) | next byte; top bits 10, the next four bytes as a
\* big-endian 32-bit value; a first byte with top bits 11 is not accepted
\* as a size.
C26_SizeDecoding ==
    (cPc = "size_read" /\ cData # <<>>) =>
        LET b == cData[1]
            n == Len(cData)
        IN  /\ b < 64 => cResult = ReadOk(b % 64, Drop(cData, 1))
            /\ (b \in 64..127 /\ n >= 2) =>
                  cResult = ReadOk((b % 64) * 256 + cData[2], Drop(cData, 2))
            /\ (b \in 128..191 /\ n >= 5) =>
                  cResult = ReadOk(((cData[2] * 256 + cData[3]) * 256 + cData[4]) * 256
                                      + cData[5], Drop(cData, 5))
            /\ b >= 192 => ~cResult.ok

(***************************************************************************)
(* The RDB loader: load_rdb_file at startup, then the server serves.       *)
(* An expiry is kept in milliseconds, the unit of the model's clock (the   *)
(* code keeps seconds as a float: ms / 1000.0).                            *)
(***************************************************************************)
\* the bytes open(...).read(n) returns: at most n
ReadUpTo(f, n) == IF Len(f) < n THEN f ELSE Take(f, n)

\* the bytes left after read(n)
AfterRead(f, n) == IF Len(f) < n THEN <<>> ELSE Drop(f, n)

read_encoded_string(f) ==
    IF f = <<>> THEN ReadFail
    ELSE IF TopBits(f[1]) = 3
    THEN LET r == ReadSpecial(LowBits(f[1]), Tail(f))
         IN  IF r.ok THEN ReadOk(ToDec(r.value), r.rest) ELSE ReadFail
    ELSE LET length == read_size_encoded(f)
         IN  IF ~length.ok THEN ReadFail
             ELSE LET s == BytesDecode(ReadUpTo(length.rest, length.value))
                  IN  IF s.ok THEN ReadOk(s.str, AfterRead(length.rest, length.value))
                      ELSE ReadFail

\* key = read_encoded_string(f); value = read_encoded_string(f)
ReadKeyValue(f) ==
    LET key == read_encoded_string(f)
    IN  IF ~key.ok THEN [ok |-> FALSE, key |-> <<>>, value |-> <<>>, rest |-> <<>>]
        ELSE LET value == read_encoded_string(key.rest)
             IN  IF ~value.ok THEN [ok |-> FALSE, key |-> <<>>, value |-> <<>>, rest |-> <<>>]
                 ELSE [ok |-> TRUE, key |-> key.value, value |-> value.value,
                       rest |-> value.rest]

\* value_type = ord(f.read(1)); key, value
ReadTypedKeyValue(f) ==
    IF f = <<>> THEN [ok |-> FALSE, key |-> <<>>, value |-> <<>>, rest |-> <<>>]
    ELSE ReadKeyValue(Tail(f))

\* what load_rdb_file leaves: the keyspace, and whether it raised
Loaded(store, raised) == [store |-> store, raised |-> raised]

RECURSIVE LoadLoop(_, _)
\* the while True loop of load_rdb_file
LoadLoop(f, store) ==
    IF f = <<>> THEN Loaded(store, FALSE)
    ELSE LET byte_val == f[1]
             rest == Tail(f)
         IN  IF byte_val = 250
             THEN LET kv == ReadKeyValue(rest)
                  IN  IF kv.ok THEN LoadLoop(kv.rest, store) ELSE Loaded(store, TRUE)
             ELSE IF byte_val = 254
             THEN LET db_index == read_size_encoded(rest)
                  IN  IF db_index.ok THEN LoadLoop(db_index.rest, store)
                      ELSE Loaded(store, TRUE)
             ELSE IF byte_val = 251
             THEN LET hash_table_size == read_size_encoded(rest)
                  IN  IF ~hash_table_size.ok THEN Loaded(store, TRUE)
                      ELSE LET expire_hash_table_size ==
                                   read_size_encoded(hash_table_size.rest)
                           IN  IF expire_hash_table_size.ok
                               THEN LoadLoop(expire_hash_table_size.rest, store)
                               ELSE Loaded(store, TRUE)
             ELSE IF byte_val = 255 THEN Loaded(store, FALSE)
             ELSE IF byte_val = 252
             THEN LET expire_time_ms == ReadLE(rest, 8)
                  IN  IF ~expire_time_ms.ok THEN Loaded(store, TRUE)
                      ELSE LET kv == ReadTypedKeyValue(expire_time_ms.rest)
                           IN  IF kv.ok
                               THEN LoadLoop(kv.rest,
                                        Assign(store, kv.key,
                                               DictEntry(kv.value, expire_time_ms.value)))
                               ELSE Loaded(store, TRUE)
             ELSE IF byte_val = 253
             THEN LET expire_time_sec == ReadLE(rest, 4)
                  IN  IF ~expire_time_sec.ok THEN Loaded(store, TRUE)
                      ELSE LET kv == ReadTypedKeyValue(expire_time_sec.rest)
                           IN  IF kv.ok
                               THEN LoadLoop(kv.rest,
                                        Assign(store, kv.key,
                                               DictEntry(kv.value,
                                                         expire_time_sec.value * 1000)))
                               ELSE Loaded(store, TRUE)
             ELSE IF byte_val = 0
             THEN LET kv == ReadKeyValue(rest)
                  IN  IF kv.ok
                      THEN LoadLoop(kv.rest, Assign(store, kv.key, StrEntry(kv.value)))
                      ELSE Loaded(store, TRUE)
             ELSE Loaded(store, FALSE)

\* os.path.exists(file_path) is false
NoFile == <<-1>>

\* b"REDIS"
sREDIS == <<82, 69, 68, 73, 83>>

\* f.read(9)
HeaderLen == 9

load_rdb_file(file, store) ==
    IF file = NoFile THEN Loaded(store, FALSE)
    ELSE IF ReadUpTo(ReadUpTo(file, HeaderLen), Len(sREDIS)) # sREDIS
    THEN Loaded(store, TRUE)
    ELSE LoadLoop(AfterRead(file, HeaderLen), store)

\* b"REDIS0011"
RdbHeader == sREDIS \o <<ZERO, ZERO, ZERO + 1, ZERO + 1>>

\* a section of a snapshot file: its bytes, the entry it installs (if any),
\* and whether the loader stops at it
Section(bytes, key, entry, stop) ==
    [bytes |-> bytes, key |-> key, entry |-> entry, stop |-> stop]

RdbSections ==
    { Section(<<0, 1, 107, 1, 97>>, kK, StrEntry(vA), FALSE),
      Section(<<0, 1, 106, 2, 98, 98>>, kJ, StrEntry(<<98, 98>>), FALSE),
      Section(<<0, 1, 106, 192, 7>>, kJ, StrEntry(<<ZERO + 7>>), FALSE),
      Section(<<252, 1, 0, 0, 0, 0, 0, 0, 0, 0, 1, 107, 1, 98>>, kK, DictEntry(vB, 1), FALSE),
      Section(<<253, 1, 0, 0, 0, 0, 1, 106, 1, 97>>, kJ, DictEntry(vA, 1000), FALSE),
      Section(<<250, 1, 107, 1, 97>>, <<>>, NoEntry, FALSE),
      Section(<<254, 0>>, <<>>, NoEntry, FALSE),
      Section(<<251, 1, 1>>, <<>>, NoEntry, FALSE),
      Section(<<255>>, <<>>, NoEntry, TRUE),
      Section(<<7>>, <<>>, NoEntry, TRUE),
      Section(<<0, 1, 106, 195>>, <<>>, NoEntry, TRUE) }

MaxSections == 2

RECURSIVE SectionBytes(_)
SectionBytes(sections) ==
    IF sections = <<>> THEN <<>> ELSE Head(sections).bytes \o SectionBytes(Tail(sections))

\* a snapshot file with these sections
RdbFile(sections) == RdbHeader \o SectionBytes(sections)

RdbClients == {"c1"}

RdbInit ==
    /\ cFrames \in SeqsUpTo(RdbSections, MaxSections)
    /\ cData \in {NoFile} \cup {Take(RdbFile(cFrames), n) : n \in 0..Len(RdbFile(cFrames))}
    /\ cResult = NoResult
    /\ cPc = "rdb_start"
    /\ role = "master"
    /\ redis_store = <<>>
    /\ replica_connections = <<>>
    /\ now = 0
    /\ pc = [c \in Conn |-> "none"]
    /\ command = [c \in Conn |-> <<>>]
    /\ local = [c \in Conn |-> InitLocal]
    /\ sock = [c \in Conn |-> InitSock]
    /\ budget = [c \in Conn |-> IF c \in RdbClients THEN 1 ELSE 0]
    /\ applied = <<>>
    /\ lastSet = [k \in KeyUniverse |-> NoSet]
    /\ obs = [c \in Conn |-> NoObs]
    /\ inbox = [c \in Conn |-> InitInbox]
    /\ ReplInit("none", 0)

\* main: try: load_rdb_file(rdb_file_path) except Exception as e: print(...)
LoadRdb ==
    /\ cPc = "rdb_start"
    /\ LET loaded == load_rdb_file(cData, redis_store)
       IN  /\ redis_store' = loaded.store
           /\ cPc' = IF loaded.raised THEN "rdb_error" ELSE "rdb_loaded"
    /\ UNCHANGED <<cFrames, cData, cResult, replVars, inbox, role, replica_connections, now,
                   pc, command, local, sock, budget, applied, lastSet, obs>>

\* main: server_socket.bind(("localhost", port)); server_socket.listen(5)
MainListen ==
    /\ cPc \in {"rdb_loaded", "rdb_error"}
    /\ cPc' = "listening"
    /\ UNCHANGED <<cFrames, cData, cResult, serverVars, replVars>>

\* main: the accept loop, entered after listen
MainAccept(c) ==
    /\ cPc = "listening"
    /\ Accept(c)

RdbNext ==
    \/ LoadRdb
    \/ MainListen
    \/ Tick
    \/ \E c \in RdbClients :
        \/ MainAccept(c)
        \/ \E request \in {<<sGET, kK>>, <<sGET, kJ>>} : Recv(c, request)
        \/ HandleGet(c)
        \/ ExpIn(c)
        \/ ExpLoad(c)
        \/ ExpTime(c)
        \/ ExpDel(c)
        \/ GetRead(c)
        \/ SendOk(c)

SpecRdb == RdbInit /\ [][RdbNext]_vars

RECURSIVE InstalledBy(_, _, _)
\* the keyspace after the sections that are whole within the first `left`
\* bytes and precede the first section the loader stops at
InstalledBy(sections, left, store) ==
    IF sections = <<>> THEN store
    ELSE LET s == Head(sections)
         IN  IF Len(s.bytes) > left \/ s.stop THEN store
             ELSE InstalledBy(Tail(sections), left - Len(s.bytes),
                              IF s.entry = NoEntry THEN store
                              ELSE Assign(store, s.key, s.entry))

\* C27: a loader failure does not stop the process, and the keyspace holds
\* exactly the entries of the sections read before the failure point, with
\* their expiries; a missing snapshot file gives an empty keyspace.
C27_LoaderNonFatal ==
    cPc \in {"rdb_loaded", "rdb_error"} =>
        redis_store = IF cData = NoFile \/ Len(cData) < HeaderLen THEN <<>>
                      ELSE InstalledBy(cFrames, Len(cData) - HeaderLen, <<>>)

(***************************************************************************)
(* Primary and replica after the stream was applied.                       *)
(***************************************************************************)
\* what GET k answers on a keyspace at time t when nothing runs beside it
GetAnswer(store, k, t) ==
    IF Has(store, k) /\ ~(Lookup(store, k).kind = "dict" /\ t > Lookup(store, k).expiry)
    THEN encode_bulk_string(Lookup(store, k).value)
    ELSE encode_null_bulk_string

\* the keyspace of a replica that started empty and applied, in order, what
\* was propagated to r
ReplicaStore(r) ==
    ProcessCommands(parse_multiple_resp_commands(Concat(Propagated(r))).commands,
                    <<>>, now, <<>>).store

\* C28: when clients have concurrently issued SETs of one key on a primary
\* with a live replica attached, then once every propagated command was
\* delivered and applied, GET of the key answers on the replica what it
\* answers on the primary.
C28_Convergence ==
    NoSetInFlight =>
        \A r \in FanoutReplicas :
            LiveFromStart(r) =>
                \A k \in KeyUniverse :
                    GetAnswer(ReplicaStore(r), k, now) = GetAnswer(redis_store, k, now)

====
